---- MODULE Spec2Model ----
(***************************************************************************)
(* Tile-based dirty-region video compositor of the BasiliskII ESP32 port   *)
(* (src/src/basilisk/video_esp32.cpp): write-time dirty marking by the     *)
(* emulator (producer, core 1), and the render task (consumer, core 0)     *)
(* that drains the dirty bitmap and renders tiles or the full frame.       *)
(***************************************************************************)
EXTENDS Integers, Sequences, FiniteSets, TLC

(***************************************************************************)
(* Program constants                                                       *)
(***************************************************************************)
MAC_SCREEN_WIDTH == 640
MAC_SCREEN_HEIGHT == 360
PIXEL_SCALE == 2
DISPLAY_WIDTH == 1280
DISPLAY_HEIGHT == 720
TILE_WIDTH == 40
TILE_HEIGHT == 40
TILES_X == 16
TILES_Y == 9
TOTAL_TILES == TILES_X * TILES_Y
DIRTY_THRESHOLD_PERCENT == 80
\* number of 32-bit words of dirty_tiles[] and write_dirty_tiles[]
DIRTY_WORDS == (TOTAL_TILES + 31) \div 32
\* const TickType_t min_frame_ticks = pdMS_TO_TICKS(67), 1 kHz tick
min_frame_ticks == 67
\* stopVideoTask: vTaskDelay(pdMS_TO_TICKS(100))
stop_delay_ticks == 100

Depths == {"VDEPTH_1BIT", "VDEPTH_2BIT", "VDEPTH_4BIT", "VDEPTH_8BIT"}

\* bits per pixel of a video_depth
DepthBits(depth) ==
    CASE depth = "VDEPTH_1BIT" -> 1
      [] depth = "VDEPTH_2BIT" -> 2
      [] depth = "VDEPTH_4BIT" -> 4
      [] OTHER -> 8

\* bytes per row of the modes VideoInit registers: 80, 160, 320, 640
TrivialBytesPerRow(width, depth) == (width * DepthBits(depth)) \div 8

(***************************************************************************)
(* Bounds of the model                                                     *)
(***************************************************************************)
\* ticks that pass in one Tick step
TickStep == 67
\* the task notification value saturates here (the code only tests > 0)
MaxNotify == 1
\* mark calls of one sequential run
MaxMarks == 1
\* the notification value saturates here in the runs of signal bursts
MaxSignals == 3
\* pixel stores of the emulator in the runs that follow the display
MaxPuts == 2

(***************************************************************************)
(* Helpers                                                                 *)
(***************************************************************************)
Min(a, b) == IF a < b THEN a ELSE b

Range(s) == {s[k] : k \in 1..Len(s)}

\* the sequence a, a+1, ..., b (empty when b < a): a C for loop
Interval(a, b) == [k \in 1..(IF b >= a THEN b - a + 1 ELSE 0) |-> a + k - 1]

\* 2^31 - 1; 2^32 - 1 = 2 * MaxInt31 + 1
MaxInt31 == 2147483647

\* (uint32)(v - 1) / d and (uint32)(v - 1) % d for v >= 0: v = 0 wraps to 2^32 - 1
U32PredDiv(v, d) ==
    IF v = 0 THEN 2 * (MaxInt31 \div d) + ((2 * (MaxInt31 % d) + 1) \div d)
    ELSE (v - 1) \div d

U32PredMod(v, d) ==
    IF v = 0 THEN (2 * (MaxInt31 % d) + 1) % d
    ELSE (v - 1) % d

(***************************************************************************)
(* Dirty bitmaps: an array of DIRTY_WORDS words, a word is the set of its  *)
(* set bit positions 0..31                                                 *)
(***************************************************************************)
ZeroBitmap == [w \in 0..(DIRTY_WORDS - 1) |-> {}]

\* __atomic_or_fetch(&bm[tile_idx / 32], 1u << (tile_idx % 32))
AtomicOrBit(bm, tile_idx) ==
    [bm EXCEPT ![tile_idx \div 32] = @ \cup {tile_idx % 32}]

\* the tile indices whose bit is set
BitmapTiles(bm) == {t \in 0..(DIRTY_WORDS * 32 - 1) : (t % 32) \in bm[t \div 32]}

\* the popcount loop of collectWriteDirtyTiles
PopCount(bits) == Cardinality(bits)


\* mutant: the exchange stores nothing, the word keeps its bits
AtomicExchangeZero_Keep(bm, i) == bm

\* mutant: the drain clears the whole accumulator after reading one word
AtomicExchangeZero_All(bm, i) == [w \in DOMAIN bm |-> {}]

\* __atomic_exchange_n(&bm[i], 0): the word after the exchange
AtomicExchangeZero(bm, i) == [bm EXCEPT ![i] = {}]

(***************************************************************************)
(* Palette: palette_rgb565[256], observed at the indices PalSample         *)
(***************************************************************************)
PalSample == {0, 1, 3, 15, 128, 255}

rgb888_to_rgb565(r, g, b) ==
    ((r \div 8) * 8 + (g \div 32)) + ((((g \div 4) * 32 + (b \div 8)) * 256) % 65536)

Gray(v) == <<v, v, v>>

\* static const uint8 mac16[16][3]
mac16(i) ==
    CASE i = 0 -> <<255, 255, 255>>
      [] i = 1 -> <<255, 255, 0>>
      [] i = 3 -> <<221, 0, 0>>
      [] i = 15 -> <<0, 0, 0>>
      [] OTHER -> <<136, 136, 136>>

\* the 6x6x6 colour cube (indices 0..215) followed by a 40-step gray ramp
mac256(i) ==
    IF i < 216 THEN <<(i \div 36) * 51, ((i \div 6) % 6) * 51, (i % 6) * 51>>
    ELSE Gray((((i - 216) * 255) \div 39) % 256)

Rgb565Of(c) == rgb888_to_rgb565(c[1], c[2], c[3])

\* initDefaultPalette(depth): the entries it writes, the others keep their value
initDefaultPalette(pal, depth) ==
    CASE depth = "VDEPTH_1BIT" ->
           [i \in PalSample |-> IF i = 0 THEN Rgb565Of(Gray(255))
                                ELSE IF i = 1 THEN Rgb565Of(Gray(0)) ELSE pal[i]]
      [] depth = "VDEPTH_2BIT" ->
           [i \in PalSample |-> IF i = 0 THEN Rgb565Of(Gray(255))
                                ELSE IF i = 1 THEN Rgb565Of(Gray(170))
                                ELSE IF i = 3 THEN Rgb565Of(Gray(0)) ELSE pal[i]]
      [] depth = "VDEPTH_4BIT" ->
           [i \in PalSample |-> IF i < 16 THEN Rgb565Of(mac16(i)) ELSE pal[i]]
      [] OTHER ->
           [i \in PalSample |-> Rgb565Of(mac256(i))]

\* the loop of set_palette(pal, num): entries i < num && i < 256
SetPaletteEntries(pal, user, num) ==
    [i \in PalSample |-> IF i < num /\ i < 256 THEN Rgb565Of(user[i]) ELSE pal[i]]

\* palette_rgb565 is zero-initialised static storage
ZeroPalette == [i \in PalSample |-> 0]

(***************************************************************************)
(* Video state cache                                                       *)
(***************************************************************************)
\* mutant: the 4-bit case falls through to the 8-bit values
updateVideoStateCache_Fallthrough(depth, bytes_per_row) ==
    CASE depth = "VDEPTH_1BIT" ->
           [depth |-> depth, bpr |-> bytes_per_row, ppb |-> 8, shift |-> 7, mask |-> 1]
      [] depth = "VDEPTH_2BIT" ->
           [depth |-> depth, bpr |-> bytes_per_row, ppb |-> 4, shift |-> 6, mask |-> 3]
      [] OTHER ->
           [depth |-> depth, bpr |-> bytes_per_row, ppb |-> 1, shift |-> 0, mask |-> 255]

updateVideoStateCache(depth, bytes_per_row) ==
    CASE depth = "VDEPTH_1BIT" ->
           [depth |-> depth, bpr |-> bytes_per_row, ppb |-> 8, shift |-> 7, mask |-> 1]
      [] depth = "VDEPTH_2BIT" ->
           [depth |-> depth, bpr |-> bytes_per_row, ppb |-> 4, shift |-> 6, mask |-> 3]
      [] depth = "VDEPTH_4BIT" ->
           [depth |-> depth, bpr |-> bytes_per_row, ppb |-> 2, shift |-> 4, mask |-> 15]
      [] OTHER ->
           [depth |-> depth, bpr |-> bytes_per_row, ppb |-> 1, shift |-> 0, mask |-> 255]

(***************************************************************************)
(* Write-time dirty marking: the tile indices a call ORs into              *)
(* write_dirty_tiles, in the order of its loops                            *)
(***************************************************************************)
\* mutant: the byte index in the row is taken for the pixel column, the
\* pixels-per-byte factor forgotten
MarkOffsetTiles_BytePixel(offset, tracking, fbsize, bpr, ppb) ==
    IF ~tracking \/ offset >= fbsize \/ offset \div bpr >= MAC_SCREEN_HEIGHT THEN <<>>
    ELSE << ((offset \div bpr) \div TILE_HEIGHT) * TILES_X + ((offset % bpr) \div TILE_WIDTH) >>

\* mutant: pixel_end = pixel_start + ppb, one pixel too far
MarkOffsetTiles_PixelEnd(offset, tracking, fbsize, bpr, ppb) ==
    IF ~tracking \/ offset >= fbsize \/ offset \div bpr >= MAC_SCREEN_HEIGHT THEN <<>>
    ELSE LET pixel_start == (offset % bpr) * ppb
             pixel_end == Min(pixel_start + ppb, MAC_SCREEN_WIDTH - 1)
             tile_y == (offset \div bpr) \div TILE_HEIGHT
         IN [k \in 1..Len(Interval(pixel_start \div TILE_WIDTH, pixel_end \div TILE_WIDTH)) |->
               tile_y * TILES_X + (pixel_start \div TILE_WIDTH) + k - 1]

\* mutant: neither the row nor the tile index is tested against the screen
MarkOffsetTiles_NoRowCheck(offset, tracking, fbsize, bpr, ppb) ==
    IF ~tracking \/ offset >= fbsize THEN <<>>
    ELSE << ((offset \div bpr) \div TILE_HEIGHT) * TILES_X
            + (((offset % bpr) * ppb) \div TILE_WIDTH) >>

MarkOffsetTiles(offset, tracking, fbsize, bpr, ppb) ==
    IF ~tracking THEN <<>>
    ELSE IF offset >= fbsize THEN <<>>
    ELSE LET y == offset \div bpr IN
      IF y >= MAC_SCREEN_HEIGHT THEN <<>>
      ELSE LET byte_in_row == offset % bpr
               pixel_start == byte_in_row * ppb
               pixel_end0  == pixel_start + ppb - 1
           IN IF pixel_start >= MAC_SCREEN_WIDTH THEN <<>>
              ELSE LET pixel_end == IF pixel_end0 >= MAC_SCREEN_WIDTH
                                    THEN MAC_SCREEN_WIDTH - 1 ELSE pixel_end0
                       tile_x_start == pixel_start \div TILE_WIDTH
                       tile_x_end == pixel_end \div TILE_WIDTH
                       tile_y == y \div TILE_HEIGHT
                   IN SelectSeq([k \in 1..Len(Interval(tile_x_start, tile_x_end)) |->
                                   tile_y * TILES_X + Interval(tile_x_start, tile_x_end)[k]],
                                LAMBDA tile_idx : tile_idx < TOTAL_TILES)

\* mutant: only the first byte of the range is marked
MarkRangeTiles_FirstByte(offset, size0, tracking, fbsize, bpr, ppb) ==
    MarkOffsetTiles(offset, tracking, fbsize, bpr, ppb)

\* mutant: tile_y_end is not clamped to TILES_Y - 1
MarkRangeTiles_NoRowClamp(offset, size0, tracking, fbsize, bpr, ppb) ==
    IF ~tracking THEN <<>>
    ELSE IF offset >= fbsize THEN <<>>
    ELSE LET size == IF offset + size0 > fbsize THEN fbsize - offset ELSE size0
             start_y == offset \div bpr
             end_y == U32PredDiv(offset + size, bpr)
         IN IF end_y = start_y /\ size <= 4
            THEN MarkOffsetTiles(offset, tracking, fbsize, bpr, ppb) \o
                 (IF size > 1
                  THEN MarkOffsetTiles(offset + size - 1, tracking, fbsize, bpr, ppb)
                  ELSE <<>>)
            ELSE LET start_byte_in_row == offset % bpr
                     end_byte_in_row == U32PredMod(offset + size, bpr)
                     pixel_col_start == IF end_y > start_y THEN 0
                                        ELSE start_byte_in_row * ppb
                     pixel_col_end == IF end_y > start_y THEN MAC_SCREEN_WIDTH - 1
                                      ELSE (end_byte_in_row + 1) * ppb - 1
                     tile_x_start == pixel_col_start \div TILE_WIDTH
                     tile_x_end == Min(pixel_col_end \div TILE_WIDTH, TILES_X - 1)
                     tile_y_start == start_y \div TILE_HEIGHT
                     tile_y_end == end_y \div TILE_HEIGHT
                     nx == Len(Interval(tile_x_start, tile_x_end))
                     ny == Len(Interval(tile_y_start, tile_y_end))
                 IN [k \in 1..(nx * ny) |->
                       (tile_y_start + ((k - 1) \div nx)) * TILES_X
                       + tile_x_start + ((k - 1) % nx)]

MarkRangeTiles(offset, size0, tracking, fbsize, bpr, ppb) ==
    IF ~tracking THEN <<>>
    ELSE IF offset >= fbsize THEN <<>>
    ELSE LET size == IF offset + size0 > fbsize THEN fbsize - offset ELSE size0
             start_y == offset \div bpr
             end_y == U32PredDiv(offset + size, bpr)
         IN IF end_y = start_y /\ size <= 4
            THEN MarkOffsetTiles(offset, tracking, fbsize, bpr, ppb) \o
                 (IF size > 1
                  THEN MarkOffsetTiles(offset + size - 1, tracking, fbsize, bpr, ppb)
                  ELSE <<>>)
            ELSE LET start_byte_in_row == offset % bpr
                     end_byte_in_row == U32PredMod(offset + size, bpr)
                     pixel_col_start == IF end_y > start_y THEN 0
                                        ELSE start_byte_in_row * ppb
                     pixel_col_end == IF end_y > start_y THEN MAC_SCREEN_WIDTH - 1
                                      ELSE (end_byte_in_row + 1) * ppb - 1
                     tile_x_start == pixel_col_start \div TILE_WIDTH
                     tile_x_end == Min(pixel_col_end \div TILE_WIDTH, TILES_X - 1)
                     tile_y_start == start_y \div TILE_HEIGHT
                     tile_y_end == Min(end_y \div TILE_HEIGHT, TILES_Y - 1)
                     nx == Len(Interval(tile_x_start, tile_x_end))
                     ny == Len(Interval(tile_y_start, tile_y_end))
                 IN [k \in 1..(nx * ny) |->
                       (tile_y_start + ((k - 1) \div nx)) * TILES_X
                       + tile_x_start + ((k - 1) % nx)]

\* all the atomic ORs of one call: bit tile_idx % 32 of word tile_idx / 32
OrTiles(bm, tiles) ==
    [w \in DOMAIN bm |-> bm[w] \cup {t % 32 : t \in {x \in Range(tiles) : x \div 32 = w}}]

VideoMarkDirtyOffset(bm, offset, tracking, fbsize, bpr, ppb) ==
    OrTiles(bm, MarkOffsetTiles(offset, tracking, fbsize, bpr, ppb))

VideoMarkDirtyRange(bm, offset, size, tracking, fbsize, bpr, ppb) ==
    OrTiles(bm, MarkRangeTiles(offset, size, tracking, fbsize, bpr, ppb))

(***************************************************************************)
(* Drain: collectWriteDirtyTiles                                           *)
(***************************************************************************)
\* mutant: the fetched word is counted but not stored into the render bitmap
CollectWord_Discard(acc, dirty, count, i) ==
    [acc   |-> [acc EXCEPT ![i] = {}],
     dirty |-> [dirty EXCEPT ![i] = {}],
     count |-> count + PopCount(acc[i])]

\* mutant: the word is ORed into the render bitmap
CollectWord_Merge(acc, dirty, count, i) ==
    [acc   |-> AtomicExchangeZero(acc, i),
     dirty |-> [dirty EXCEPT ![i] = dirty[i] \cup acc[i]],
     count |-> count + PopCount(acc[i])]

\* one iteration of the loop: [acc, dirty, count] after word i
CollectWord(acc, dirty, count, i) ==
    [acc   |-> AtomicExchangeZero(acc, i),
     dirty |-> [dirty EXCEPT ![i] = acc[i]],
     count |-> count + PopCount(acc[i])]

RECURSIVE CollectFrom(_, _, _, _)
CollectFrom(acc, dirty, count, i) ==
    IF i >= DIRTY_WORDS THEN [acc |-> acc, dirty |-> dirty, count |-> count]
    ELSE LET r == CollectWord(acc, dirty, count, i)
         IN CollectFrom(r.acc, r.dirty, r.count, i + 1)

\* the whole call, run without interruption
collectWriteDirtyTiles(acc, dirty) == CollectFrom(acc, dirty, 0, 0)

\* mutant: the threshold rounded up instead of down
dirty_threshold_RoundUp == (TOTAL_TILES * DIRTY_THRESHOLD_PERCENT + 99) \div 100

\* int dirty_threshold = (TOTAL_TILES * DIRTY_THRESHOLD_PERCENT) / 100
dirty_threshold == (TOTAL_TILES * DIRTY_THRESHOLD_PERCENT) \div 100

(***************************************************************************)
(* Packed pixels.  A buffer is a function from byte offsets to bytes; a    *)
(* pointer into it is the pair of the buffer and an offset.                *)
(***************************************************************************)
\* (v >> shift) & mask
ShiftMask(v, shift, mask) == (v \div (2 ^ shift)) % (mask + 1)

\* decodePackedRow(src, dst, width, depth): dst[0..width-1], src = buf + base
decodePackedRow(buf, base, width, depth) ==
    [x \in 0..(width - 1) |->
        CASE depth = "VDEPTH_1BIT" ->
               LET byte_idx == x \div 8
                   bit_idx == 7 - (x % 8)
               IN ShiftMask(buf[base + byte_idx], bit_idx, 1)
          [] depth = "VDEPTH_2BIT" ->
               LET byte_idx == x \div 4
                   shift == 6 - ((x % 4) * 2)
               IN ShiftMask(buf[base + byte_idx], shift, 3)
          [] depth = "VDEPTH_4BIT" ->
               LET byte_idx == x \div 2
                   shift == IF x % 2 = 0 THEN 4 ELSE 0
               IN ShiftMask(buf[base + byte_idx], shift, 15)
          [] OTHER -> buf[base + x]]

\* mutant: the 2-bit case takes the least significant field first
getPackedPixel_LsbFirst(fb, x, y, bpr, depth) ==
    LET row == y * bpr
    IN CASE depth = "VDEPTH_1BIT" -> ShiftMask(fb[row + (x \div 8)], 7 - (x % 8), 1)
         [] depth = "VDEPTH_2BIT" -> ShiftMask(fb[row + (x \div 4)], (x % 4) * 2, 3)
         [] depth = "VDEPTH_4BIT" -> ShiftMask(fb[row + (x \div 2)], IF x % 2 = 0 THEN 4 ELSE 0, 15)
         [] OTHER -> fb[row + x]

\* getPackedPixel(fb, x, y, bpr, depth)
getPackedPixel(fb, x, y, bpr, depth) ==
    LET row == y * bpr
    IN CASE depth = "VDEPTH_1BIT" ->
              LET byte_idx == x \div 8
                  bit_idx == 7 - (x % 8)
              IN ShiftMask(fb[row + byte_idx], bit_idx, 1)
         [] depth = "VDEPTH_2BIT" ->
              LET byte_idx == x \div 4
                  shift == 6 - ((x % 4) * 2)
              IN ShiftMask(fb[row + byte_idx], shift, 3)
         [] depth = "VDEPTH_4BIT" ->
              LET byte_idx == x \div 2
                  shift == IF x % 2 = 0 THEN 4 ELSE 0
              IN ShiftMask(fb[row + byte_idx], shift, 15)
         [] OTHER -> fb[row + x]

\* snapshotTile(src_buffer, tile_x, tile_y, snapshot) with the depth and the
\* bytes per row it reads from the cache: snapshot[0..TILE_WIDTH*TILE_HEIGHT-1]
snapshotTile(src_buffer, tile_x, tile_y, depth, bpr) ==
    LET src_start_x == tile_x * TILE_WIDTH
        src_start_y == tile_y * TILE_HEIGHT
    IN [k \in 0..(TILE_WIDTH * TILE_HEIGHT - 1) |->
          LET row == k \div TILE_WIDTH
              x == k % TILE_WIDTH
              src_row == (src_start_y + row) * bpr
              pixel_x == src_start_x + x
          IN IF depth = "VDEPTH_8BIT" THEN src_buffer[src_row + src_start_x + x]
             ELSE CASE depth = "VDEPTH_1BIT" ->
                         LET byte_idx == pixel_x \div 8
                             bit_idx == 7 - (pixel_x % 8)
                         IN ShiftMask(src_buffer[src_row + byte_idx], bit_idx, 1)
                    [] depth = "VDEPTH_2BIT" ->
                         LET byte_idx == pixel_x \div 4
                             shift == 6 - ((pixel_x % 4) * 2)
                         IN ShiftMask(src_buffer[src_row + byte_idx], shift, 3)
                    [] depth = "VDEPTH_4BIT" ->
                         LET byte_idx == pixel_x \div 2
                             shift == IF pixel_x % 2 = 0 THEN 4 ELSE 0
                         IN ShiftMask(src_buffer[src_row + byte_idx], shift, 15)
                    [] OTHER -> src_buffer[src_row + pixel_x]]

\* *((uint32 *)p) on the little-endian core: the 32-bit word as its two
\* 16-bit halves
\* mutant: the bytes are taken most significant first
Read32_BigEndian(buf, o) ==
    [lo |-> buf[o + 3] + 256 * buf[o + 2], hi |-> buf[o + 1] + 256 * buf[o]]

Read32(buf, o) ==
    [lo |-> buf[o] + 256 * buf[o + 1], hi |-> buf[o + 2] + 256 * buf[o + 3]]

\* (src4 >> (8 * k)) & 0xFF
Byte32(src4, k) ==
    CASE k = 0 -> src4.lo % 256
      [] k = 1 -> (src4.lo \div 256) % 256
      [] k = 2 -> src4.hi % 256
      [] OTHER -> (src4.hi \div 256) % 256

\* the first x the loop "for (; x < width - 3; x += 4)" does not handle
WideLimit(width) == IF width < 4 THEN 0 ELSE ((width \div 4) * 4)

\* the colour the row loops of renderTileFromSnapshot and renderFrameToDSI
\* write for source pixel x of the row at pixel_row + base: in the 4-pixel
\* loop up to wide_limit, in the 1-pixel loop after it
ScaledColour(pixel_row, base, x, local_palette, wide_limit) ==
    IF x < wide_limit
    THEN local_palette[Byte32(Read32(pixel_row, base + 4 * (x \div 4)), x % 4)]
    ELSE local_palette[pixel_row[base + x]]

\* renderTileFromSnapshot(snapshot, local_palette, out_buffer):
\* out_buffer[0 .. 80*80-1]; rows 2*row and 2*row+1 get the same colours,
\* columns 2*x and 2*x+1 the colour of pixel x
renderTileFromSnapshot(snapshot, local_palette, wide_limit) ==
    LET tile_pixel_width == TILE_WIDTH * PIXEL_SCALE
    IN [k \in 0..(tile_pixel_width * TILE_HEIGHT * 2 - 1) |->
          LET row == (k \div tile_pixel_width) \div 2
              x == (k % tile_pixel_width) \div 2
          IN ScaledColour(snapshot, row * TILE_WIDTH, x, local_palette, wide_limit)]

\* renderFrameToDSI(src_buffer), the pass of its loop for row y: dst_row0
\* and dst_row1 = dst_row0 + DISPLAY_WIDTH, as offsets from dst_row0
renderFrameToDSI(src_buffer, y, local_palette, depth, bpr, wide_limit) ==
    LET pixel_row == IF depth = "VDEPTH_8BIT"
                     THEN [x \in 0..(MAC_SCREEN_WIDTH - 1) |-> src_buffer[y * bpr + x]]
                     ELSE decodePackedRow(src_buffer, y * bpr, MAC_SCREEN_WIDTH, depth)
    IN [k \in 0..(2 * DISPLAY_WIDTH - 1) |->
          ScaledColour(pixel_row, 0, (k % DISPLAY_WIDTH) \div 2, local_palette, wide_limit)]

(***************************************************************************)
(* State                                                                   *)
(***************************************************************************)
VARIABLES
    \* shared statics of video_esp32.cpp
    write_dirty_tiles,          \* accumulator bitmap, ORed into by the marks
    dirty_tiles,                \* render bitmap, written by the drain
    dirty_tile_count,
    force_full_update,
    use_write_dirty_tracking,
    frame_ready,
    frame_buffer_size,
    current_depth,
    current_bytes_per_row,
    current_pixels_per_byte,
    current_bit_shift,
    current_pixel_mask,
    palette_rgb565,
    notify_value,               \* notification value of the video task
    \* videoRenderTaskOptimized: position and locals
    pc,
    notification,
    should_render,
    elapsed,                    \* now - last_frame_ticks as read at the gate
    do_full_update,
    local_palette,
    collect_i,                  \* loop variable i of collectWriteDirtyTiles
    collect_count,              \* local count of collectWriteDirtyTiles
    tile_idx,                   \* loop position of renderAndPushDirtyTiles
    render_src,                 \* the buffer the palette-lookup loop reads
    render_depth,               \* local depth of renderFrameToDSI / snapshotTile
    live_read,                  \* tiles whose live framebuffer bytes the last render call read
    frame_palette,              \* renderFrameToDSI: the palette copy of its last call
    \* tick count, kept as saturating differences
    clk_frame,                  \* xTaskGetTickCount() - last_frame_ticks
    clk_now,                    \* xTaskGetTickCount() - now
    clk_wait,                   \* ticks spent in the current ulTaskNotifyTake
    \* the emulator thread: position and the ORs its mark call still has to do
    ppc,
    pend,
    pend_i,
    \* history variables
    unseen,                     \* tiles ORed and not exchanged since
    got,                        \* of those, the ones this cycle's drain exchanged
    fresh,                      \* tiles ORed since the last wake, not rendered since
    fresh_all,                  \* tiles ORed since the last wake
    owe,                        \* tiles ORed before the last wake, not rendered since
    must,                       \* tiles ORed before the last wake and after the one before
    pal_owed,                   \* set_palette returned since the last wake, no full render since
    cyc_pal_owed,               \* set_palette returned before the last wake
    woke_early,                 \* the last wake came < min_frame_ticks after a render
    clk_render,                 \* ticks since the last completed render
    tile_log,                   \* tiles snapshotted, rendered and pushed in this cycle
    push_log,                   \* windows pushed in this cycle
    full_log,                   \* full-frame renders of this cycle
    cycle_kind,                 \* the perf counter this cycle incremented
    \* sequential runs of the interface
    seq_marks,
    seq_op,
    seq_prev,
    seq_off,
    seq_size,
    seq_phase,
    seq_depth,                  \* the last call was a switch: the depth of its mode
    \* the buffers and the task: a pointer is "NULL" or names the block it
    \* points to; heap is the set of blocks allocated and not freed
    mac_frame_buffer,
    snapshot_buffer,
    compare_buffer,
    dsi_framebuffer,
    heap,
    video_task_running,
    video_task_handle,
    \* the thread that calls VideoInit and VideoExit: position, return value
    \* of VideoInit, the buffer VideoExit has reached
    vpc,
    init_alloc,                 \* what the allocations of the VideoInit call returned
    init_result,
    exit_buf,
    clk_grace,                  \* ticks spent in the vTaskDelay of stopVideoTask
    \* the render task's use of the buffers
    src_buffer,                 \* parameter src_buffer of renderAndPushDirtyTiles
    uaf,                        \* the render task has read or written a freed block
    nullderef,                  \* the render task has dereferenced a null pointer
    \* runs of the pixel decoders on a framebuffer image
    dec_img,                    \* the image: byte o of mac_frame_buffer is (mul * o + add) % 256
    dec_y,                      \* the row decoded
    dec_tx,                     \* the tile column snapshotted
    dec_row,                    \* dst of decodePackedRow
    dec_points,                 \* getPackedPixel of every column of the row
    dec_snap,                   \* snapshot of snapshotTile
    dec_done,                   \* the decoders that have run
    dec_tile_out,               \* out_buffer of renderTileFromSnapshot
    dec_frame_out,              \* the two rows of dsi_framebuffer renderFrameToDSI writes for row dec_y
    \* the palette table under frame_spinlock, one entry at a time
    frame_spinlock,             \* "unlocked", or the thread inside the critical section
    pal_pc,                     \* set_palette / initDefaultPalette: position
    pal_target,                 \* the table the call in progress writes
    pal_before,                 \* the table when the call in progress took the lock
    pal_i,                      \* the entry the write loop has reached
    cp_pc,                      \* the render task's palette copy: position
    cp_site,                    \* the function that makes the copy
    cp_i,                       \* the entry memcpy has reached
    cp_local,                   \* local_palette of that function
    cp_whole,                   \* the tables before and after the writes concurrent with the copy
    \* one tile of a partial update, step by step
    tpc,                        \* renderAndPushDirtyTiles: position inside the loop body
    mac_pixels,                 \* the bytes of mac_frame_buffer at the sample offsets
    snap_left,                  \* the sample bytes snapshotTile has still to copy
    tile_snapshot,              \* static uint8 tile_snapshot[]
    tile_buffer,                \* static uint16 tile_buffer[]
    pushed,                     \* the pixels of the last writePixels call of the tile loop
    \* the pixels on display
    render_left,                \* the sample bytes renderFrameToDSI has still to convert
    dsi_pixels,                 \* dsi_framebuffer at the display pixels of the sample bytes
    panel,                      \* the display at those pixels
    puts,                       \* the pixels the emulator has stored so far
    \* the comparison fallback
    copy_left,                  \* the sample bytes takeFrameSnapshot has still to copy
    buf_pixels,                 \* the sample bytes of the two comparison buffers
    \* a reader of the video state cache on the render task
    rd_pc,                      \* position between the two reads
    rd_site,                    \* the function that reads
    rd_depth,                   \* its local depth
    rd_bpr,                     \* its local bpr
    \* a run of detectDirtyTiles
    cmp_pc,                     \* detectDirtyTiles: position
    cmp_cur,                    \* buffer current: the offsets of its bytes that are 0x81, the others 0x80
    cmp_prev,                   \* buffer previous, likewise
    cmp_bpr,                    \* local bpr
    cmp_ppb,                    \* local ppb
    cmp_tile,                   \* ty * TILES_X + tx of the tile loops
    cmp_count                   \* local count

sharedVars == <<write_dirty_tiles, dirty_tiles, dirty_tile_count, force_full_update,
                use_write_dirty_tracking, frame_ready, frame_buffer_size, palette_rgb565,
                notify_value>>
modeVars == <<current_depth, current_bytes_per_row, current_pixels_per_byte,
              current_bit_shift, current_pixel_mask>>
consumerVars == <<pc, notification, should_render, elapsed, do_full_update, local_palette,
                  collect_i, collect_count, tile_idx, render_src, render_depth, live_read>>
clockVars == <<clk_frame, clk_now, clk_wait, clk_render>>
producerVars == <<ppc, pend, pend_i>>
markHist == <<unseen, got, fresh, fresh_all, owe, must>>
cycleHist == <<pal_owed, cyc_pal_owed, woke_early, tile_log, push_log, full_log, cycle_kind>>

frameVars == <<frame_palette>>
seqVars == <<seq_marks, seq_op, seq_prev, seq_off, seq_size, seq_phase, seq_depth>>
bufferVars == <<mac_frame_buffer, snapshot_buffer, compare_buffer, dsi_framebuffer, heap>>
lifeVars == <<bufferVars, video_task_running, video_task_handle, vpc, init_alloc,
              init_result, exit_buf, clk_grace>>
accessVars == <<src_buffer, uaf, nullderef>>
decVars == <<dec_img, dec_y, dec_tx, dec_row, dec_points, dec_snap, dec_done, dec_tile_out,
             dec_frame_out>>
lockVars == <<frame_spinlock, pal_pc, pal_target, pal_i, cp_pc, cp_site, cp_i, cp_local,
              cp_whole, pal_before>>
tileVars == <<tpc, mac_pixels, snap_left, tile_snapshot, tile_buffer, pushed>>
healVars == <<render_left, dsi_pixels, panel, puts>>
fallbackVars == <<copy_left, buf_pixels>>
cacheVars == <<rd_pc, rd_site, rd_depth, rd_bpr>>
cmpVars == <<cmp_pc, cmp_cur, cmp_prev, cmp_bpr, cmp_ppb, cmp_tile, cmp_count>>

vars == <<sharedVars, modeVars, consumerVars, clockVars, producerVars, markHist,
          cycleHist, seqVars, frameVars, lifeVars, accessVars, decVars, lockVars, tileVars, healVars, fallbackVars, cacheVars, cmpVars>>

AllTiles == 0..(TOTAL_TILES - 1)

\* mutant: the tile loop tests the accumulator instead of the render bitmap
isTileDirty_Acc(t) == (t % 32) \in write_dirty_tiles[t \div 32]

\* isTileDirty(tile_idx): reads the render bitmap
isTileDirty(t) == (t % 32) \in dirty_tiles[t \div 32]

(***************************************************************************)
(* Init: the state VideoInit leaves when it returns true, the render task  *)
(* created and about to enter its loop                                     *)
(***************************************************************************)
\* no thread in a critical section of frame_spinlock
\* the sample bytes of the framebuffer: two in one tile, one in another
TileBytes == {45 * MAC_SCREEN_WIDTH + 50, 45 * MAC_SCREEN_WIDTH + 51,
              85 * MAC_SCREEN_WIDTH + 330}

\* the pixel values the emulator writes there
PixelSample == {15, 128}

\* no tile in progress; VideoInit has filled the framebuffer with 0x80
TileIdle ==
    /\ tpc = "next"
    /\ mac_pixels = [o \in TileBytes |-> 128]
    /\ snap_left = {}
    /\ tile_snapshot = <<>>
    /\ tile_buffer = <<>>
    /\ pushed = <<>>

\* the display pixels source pixel o is scaled to at 8 bits per pixel:
\* rows 2y and 2y + 1, columns 2x and 2x + 1
DisplayOf(o) ==
    LET y == o \div MAC_SCREEN_WIDTH
        x == o % MAC_SCREEN_WIDTH
    IN {((y * PIXEL_SCALE) + dy) * DISPLAY_WIDTH + ((x * PIXEL_SCALE) + dx) :
            dy \in 0..(PIXEL_SCALE - 1), dx \in 0..(PIXEL_SCALE - 1)}

PanelPixels == UNION {DisplayOf(o) : o \in TileBytes}

\* the source pixel of display pixel d
SourceOf(d) == CHOOSE o \in TileBytes : d \in DisplayOf(o)

\* VideoInit has cleared dsi_framebuffer to dark gray and pushed it
HealIdle ==
    /\ render_left = TileBytes
    /\ dsi_pixels = [d \in PanelPixels |-> rgb888_to_rgb565(64, 64, 64)]
    /\ panel = [d \in PanelPixels |-> rgb888_to_rgb565(64, 64, 64)]
    /\ puts = 0

\* no function of the render task between its reads of the cache
CacheIdle ==
    /\ rd_pc = "idle"
    /\ rd_site = "none"
    /\ rd_depth = "none"
    /\ rd_bpr = 0

\* VideoInit has filled snapshot_buffer and compare_buffer with 0x80
FallbackIdle ==
    /\ copy_left = {}
    /\ buf_pixels = [b \in {"snap", "cmp"} |-> [o \in TileBytes |-> 128]]

\* detectDirtyTiles has not been called
CmpIdle ==
    /\ cmp_pc = "idle"
    /\ cmp_cur = {}
    /\ cmp_prev = {}
    /\ cmp_bpr = 0
    /\ cmp_ppb = 0
    /\ cmp_tile = 0
    /\ cmp_count = 0

LockIdle ==
    /\ frame_spinlock = "unlocked"
    /\ pal_pc = "idle"
    /\ pal_target = ZeroPalette
    /\ pal_before = ZeroPalette
    /\ pal_i = 1
    /\ cp_pc = "idle"
    /\ cp_site = "none"
    /\ cp_i = 1
    /\ cp_local = ZeroPalette
    /\ cp_whole = {}

\* no decoder run
DecodeIdle ==
    /\ dec_img = [mul |-> 0, add |-> 0]
    /\ dec_y = 0
    /\ dec_tx = 0
    /\ dec_row = <<>>
    /\ dec_points = <<>>
    /\ dec_snap = <<>>
    /\ dec_done = {}
    /\ dec_tile_out = <<>>
    /\ dec_frame_out = <<>>

\* acc: the accumulator; force: force_full_update; tracking:
\* use_write_dirty_tracking
InitStateWith(acc, force, tracking) ==
    /\ DecodeIdle
    /\ LockIdle
    /\ TileIdle
    /\ HealIdle
    /\ FallbackIdle
    /\ CacheIdle
    /\ CmpIdle
    /\ write_dirty_tiles = acc
    /\ dirty_tiles = ZeroBitmap
    /\ dirty_tile_count = 0
    /\ force_full_update = force
    /\ use_write_dirty_tracking = tracking
    /\ frame_ready = FALSE
    /\ frame_buffer_size = MAC_SCREEN_WIDTH * MAC_SCREEN_HEIGHT
    /\ current_depth = "VDEPTH_8BIT"
    /\ current_bytes_per_row = TrivialBytesPerRow(MAC_SCREEN_WIDTH, "VDEPTH_8BIT")
    /\ current_pixels_per_byte = 1
    /\ current_bit_shift = 0
    /\ current_pixel_mask = 255
    /\ palette_rgb565 = initDefaultPalette(ZeroPalette, "VDEPTH_8BIT")
    /\ notify_value = 0
    /\ pc = "wait"
    /\ notification = 0
    /\ should_render = FALSE
    /\ elapsed = 0
    /\ do_full_update = FALSE
    /\ local_palette = ZeroPalette
    /\ collect_i = 0
    /\ collect_count = 0
    /\ tile_idx = 0
    /\ render_src = "none"
    /\ render_depth = "none"
    /\ live_read = {}
    /\ clk_frame = 0
    /\ clk_now = 0
    /\ clk_wait = 0
    /\ clk_render = min_frame_ticks
    /\ ppc = "idle"
    /\ pend = <<>>
    /\ pend_i = 1
    /\ unseen = BitmapTiles(acc)
    /\ got = {}
    /\ fresh = BitmapTiles(acc)
    /\ fresh_all = BitmapTiles(acc)
    /\ owe = {}
    /\ must = {}
    /\ pal_owed = FALSE
    /\ frame_palette = ZeroPalette
    /\ cyc_pal_owed = FALSE
    /\ woke_early = FALSE
    /\ tile_log = <<>>
    /\ push_log = <<>>
    /\ full_log = 0
    /\ cycle_kind = "none"
    /\ seq_marks = 0
    /\ seq_op = "init"
    /\ seq_prev = "init"
    /\ seq_off = 0
    /\ seq_size = 0
    /\ seq_phase = "nomark"
    /\ seq_depth = "none"
    /\ mac_frame_buffer = "mac"
    /\ snapshot_buffer = "snap"
    /\ compare_buffer = "cmp"
    /\ dsi_framebuffer = "dsi"
    /\ heap = {"mac", "snap", "cmp", "dsi"}
    /\ video_task_running = TRUE
    /\ video_task_handle = "VideoTask"
    /\ vpc = "running"
    /\ init_alloc = [mac |-> TRUE, snap |-> TRUE, cmp |-> TRUE, dsi |-> TRUE, task |-> TRUE]
    /\ init_result = "true"
    /\ exit_buf = 1
    /\ clk_grace = 0
    /\ src_buffer = "NULL"
    /\ uaf = FALSE
    /\ nullderef = FALSE

\* use_write_dirty_tracking as its initialiser leaves it
InitState(acc, force) == InitStateWith(acc, force, TRUE)

Init == InitState(ZeroBitmap, TRUE)

(***************************************************************************)
(* Sequential runs: the calls of the interface, each run to completion     *)
(* with no other thread in between                                         *)
(***************************************************************************)
\* rows and byte columns of the sampled offsets: first and last row, a row
\* inside tile row 1, the first row below the screen; tile borders
SampleRows == {0, 45, MAC_SCREEN_HEIGHT - 1, MAC_SCREEN_HEIGHT}

SampleCols(bpr, ppb) ==
    {9, TILE_WIDTH \div ppb, bpr - 1} \cap (0..(bpr - 1))

SeqOffsets ==
    UNION {{y * TrivialBytesPerRow(MAC_SCREEN_WIDTH, d) + b :
              y \in SampleRows,
              b \in SampleCols(TrivialBytesPerRow(MAC_SCREEN_WIDTH, d), 8 \div DepthBits(d))} :
           d \in Depths}
    \cup {45 * MAC_SCREEN_WIDTH + 50,
          MAC_SCREEN_WIDTH * MAC_SCREEN_HEIGHT - 1, MAC_SCREEN_WIDTH * MAC_SCREEN_HEIGHT}

\* <<offset, size>>: tile rows 0..6, then 3 and 4 tiles of tile row 7, a
\* 4-byte write across a tile border, a 4-byte write across the end of a
\* row, a write past the end of the framebuffer
SeqRanges ==
    {<<0, 7 * TILE_HEIGHT * MAC_SCREEN_WIDTH>>,
     <<7 * TILE_HEIGHT * MAC_SCREEN_WIDTH, 3 * TILE_WIDTH>>,
     <<7 * TILE_HEIGHT * MAC_SCREEN_WIDTH, 4 * TILE_WIDTH>>,
     <<45 * MAC_SCREEN_WIDTH + 38, 4>>,
     <<45 * MAC_SCREEN_WIDTH + 638, 4>>,
     <<MAC_SCREEN_WIDTH * MAC_SCREEN_HEIGHT, 4>>}

SeqUnchanged == UNCHANGED <<consumerVars, clockVars, producerVars, markHist, cycleHist,
                            frameVars, lifeVars, accessVars, decVars, lockVars, tileVars, healVars, fallbackVars, cacheVars, cmpVars,
                            frame_ready, notify_value, use_write_dirty_tracking,
                            frame_buffer_size>>

SeqMarkOffset(o) ==
    /\ seq_marks < MaxMarks
    /\ write_dirty_tiles' =
         VideoMarkDirtyOffset(write_dirty_tiles, o, use_write_dirty_tracking,
                              frame_buffer_size, current_bytes_per_row,
                              current_pixels_per_byte)
    /\ seq_marks' = seq_marks + 1
    /\ seq_prev' = seq_op
    /\ seq_op' = "markOffset"
    /\ seq_off' = o
    /\ seq_size' = 0
    /\ seq_phase' = IF write_dirty_tiles' # write_dirty_tiles THEN "marked" ELSE seq_phase
    /\ seq_depth' = "none"
    /\ UNCHANGED <<dirty_tiles, dirty_tile_count, force_full_update, palette_rgb565, modeVars>>
    /\ SeqUnchanged

SeqMarkRange(o, n) ==
    /\ seq_marks < MaxMarks
    /\ write_dirty_tiles' =
         VideoMarkDirtyRange(write_dirty_tiles, o, n, use_write_dirty_tracking,
                             frame_buffer_size, current_bytes_per_row,
                             current_pixels_per_byte)
    /\ seq_marks' = seq_marks + 1
    /\ seq_prev' = seq_op
    /\ seq_op' = "markRange"
    /\ seq_off' = o
    /\ seq_size' = n
    /\ seq_phase' = IF write_dirty_tiles' # write_dirty_tiles THEN "marked" ELSE seq_phase
    /\ seq_depth' = "none"
    /\ UNCHANGED <<dirty_tiles, dirty_tile_count, force_full_update, palette_rgb565, modeVars>>
    /\ SeqUnchanged

SeqDrain ==
    /\ LET r == collectWriteDirtyTiles(write_dirty_tiles, dirty_tiles)
       IN /\ write_dirty_tiles' = r.acc
          /\ dirty_tiles' = r.dirty
          /\ dirty_tile_count' = r.count
    /\ seq_prev' = seq_op
    /\ seq_op' = "drain"
    /\ seq_phase' = CASE seq_phase = "marked" -> "drained1"
                      [] seq_phase = "drained1" -> "drained2"
                      [] OTHER -> seq_phase
    /\ seq_depth' = "none"
    /\ UNCHANGED <<seq_marks, seq_off, seq_size, force_full_update, palette_rgb565, modeVars>>
    /\ SeqUnchanged

\* switch_to_current_mode with get_current_mode() = (d, TrivialBytesPerRow(640, d))
SeqSwitch(d) ==
    /\ LET c == updateVideoStateCache(d, TrivialBytesPerRow(MAC_SCREEN_WIDTH, d))
       IN /\ current_depth' = c.depth
          /\ current_bytes_per_row' = c.bpr
          /\ current_pixels_per_byte' = c.ppb
          /\ current_bit_shift' = c.shift
          /\ current_pixel_mask' = c.mask
    /\ palette_rgb565' = initDefaultPalette(palette_rgb565, d)
    /\ force_full_update' = TRUE
    /\ seq_prev' = seq_op
    /\ seq_op' = "switch"
    /\ seq_depth' = d
    /\ UNCHANGED <<seq_marks, seq_off, seq_size, seq_phase, write_dirty_tiles, dirty_tiles,
                   dirty_tile_count>>
    /\ SeqUnchanged

NextSeq ==
    \/ \E o \in SeqOffsets : SeqMarkOffset(o)
    \/ \E r \in SeqRanges : SeqMarkRange(r[1], r[2])
    \/ SeqDrain
    \/ \E d \in Depths : SeqSwitch(d)

SpecSeq == Init /\ [][NextSeq]_vars

\* <<offset, 0>>: calls of VideoMarkDirtyRange with size 0 at the first byte
\* of the framebuffer, at the first byte of a tile row, at the first byte
\* of a row inside a tile row, and inside a row
ZeroRanges ==
    {<<0, 0>>, <<TILE_HEIGHT * MAC_SCREEN_WIDTH, 0>>, <<45 * MAC_SCREEN_WIDTH, 0>>,
     <<45 * MAC_SCREEN_WIDTH + 50, 0>>}

NextZero ==
    \/ \E r \in ZeroRanges : SeqMarkRange(r[1], r[2])
    \/ SeqDrain
    \/ \E d \in Depths : SeqSwitch(d)

SpecZero == Init /\ [][NextZero]_vars

(***************************************************************************)
(* Time: one Tick lets TickStep ticks pass; the differences saturate at    *)
(* min_frame_ticks, the only value the code compares them with             *)
(***************************************************************************)
Advance(clk) == Min(clk + TickStep, min_frame_ticks)

Tick ==
    /\ clk_frame' = Advance(clk_frame)
    /\ clk_now' = IF pc \in {"wait", "flag", "gate"} THEN clk_now ELSE Advance(clk_now)
    /\ clk_wait' = IF pc = "wait" THEN Advance(clk_wait) ELSE clk_wait
    /\ clk_render' = Advance(clk_render)
    /\ clk_grace' = IF vpc = "delay" THEN Min(clk_grace + TickStep, stop_delay_ticks)
                     ELSE clk_grace
    /\ UNCHANGED <<sharedVars, modeVars, consumerVars, producerVars, markHist, cycleHist,
                   seqVars, frameVars, bufferVars, video_task_running, video_task_handle,
                   vpc, init_alloc, init_result, exit_buf, accessVars, decVars, lockVars, tileVars, healVars, fallbackVars, cacheVars, cmpVars>>

(***************************************************************************)
(* The emulator thread (core 1): mark calls, VideoSignalFrameReady,        *)
(* set_palette, switch_to_current_mode.  Every access to a shared          *)
(* variable is a step of its own.                                          *)
(***************************************************************************)
\* the inputs of the emulator thread
SchedOffsets == {45 * MAC_SCREEN_WIDTH + 50, 85 * MAC_SCREEN_WIDTH + 330}
SchedRanges == {<<45 * MAC_SCREEN_WIDTH + 50, 2>>}
SignalOffsets == {45 * MAC_SCREEN_WIDTH + 50}
SchedDepths == {"VDEPTH_8BIT", "VDEPTH_1BIT"}
UserPalettes == {[i \in PalSample |-> Gray(255 - i)]}
UserNums == {256}

ProducerUnchanged == UNCHANGED <<consumerVars, clockVars, seqVars, frameVars, lifeVars,
                                 accessVars, decVars, lockVars, tileVars, healVars, fallbackVars, cacheVars, cmpVars, dirty_tiles,
                                 dirty_tile_count, use_write_dirty_tracking,
                                 frame_buffer_size>>

\* VideoMarkDirtyOffset(o) up to its loop
MarkOffsetCall(o) ==
    /\ ppc = "idle"
    /\ pend' = MarkOffsetTiles(o, use_write_dirty_tracking, frame_buffer_size,
                               current_bytes_per_row, current_pixels_per_byte)
    /\ pend_i' = 1
    /\ ppc' = IF pend' = <<>> THEN "idle" ELSE "mark"
    /\ UNCHANGED <<write_dirty_tiles, force_full_update, frame_ready, palette_rgb565,
                   notify_value, modeVars, markHist, cycleHist>>
    /\ ProducerUnchanged

\* VideoMarkDirtyRange(o, n) up to its loop (or the loops of the two
\* VideoMarkDirtyOffset calls it delegates to)
MarkRangeCall(o, n) ==
    /\ ppc = "idle"
    /\ pend' = MarkRangeTiles(o, n, use_write_dirty_tracking, frame_buffer_size,
                              current_bytes_per_row, current_pixels_per_byte)
    /\ pend_i' = 1
    /\ ppc' = IF pend' = <<>> THEN "idle" ELSE "mark"
    /\ UNCHANGED <<write_dirty_tiles, force_full_update, frame_ready, palette_rgb565,
                   notify_value, modeVars, markHist, cycleHist>>
    /\ ProducerUnchanged

\* mutant: the accumulator is under a lock the drain holds
MarkOr_WaitsForDrain ==
    /\ ppc = "mark"
    /\ pc # "collect"
    /\ write_dirty_tiles' = AtomicOrBit(write_dirty_tiles, pend[pend_i])
    /\ unseen' = unseen \cup {pend[pend_i]}
    /\ fresh' = fresh \cup {pend[pend_i]}
    /\ IF pend_i = Len(pend)
       THEN /\ ppc' = "idle" /\ pend' = <<>> /\ pend_i' = 1
            /\ fresh_all' = fresh_all \cup Range(pend)
       ELSE /\ ppc' = "mark" /\ pend' = pend /\ pend_i' = pend_i + 1
            /\ fresh_all' = fresh_all
    /\ UNCHANGED <<force_full_update, frame_ready, palette_rgb565, notify_value, modeVars,
                   got, owe, must, cycleHist>>
    /\ ProducerUnchanged

\* one __atomic_or_fetch of the loop; after the last one the call returns
MarkOr ==
    /\ ppc = "mark"
    /\ write_dirty_tiles' = AtomicOrBit(write_dirty_tiles, pend[pend_i])
    /\ unseen' = unseen \cup {pend[pend_i]}
    /\ fresh' = fresh \cup {pend[pend_i]}
    /\ IF pend_i = Len(pend)
       THEN /\ ppc' = "idle" /\ pend' = <<>> /\ pend_i' = 1
            /\ fresh_all' = fresh_all \cup Range(pend)
       ELSE /\ ppc' = "mark" /\ pend' = pend /\ pend_i' = pend_i + 1
            /\ fresh_all' = fresh_all
    /\ UNCHANGED <<force_full_update, frame_ready, palette_rgb565, notify_value, modeVars,
                   got, owe, must, cycleHist>>
    /\ ProducerUnchanged

\* VideoSignalFrameReady: frame_ready = true
SignalFlag ==
    /\ ppc = "idle"
    /\ frame_ready' = TRUE
    /\ ppc' = "notify"
    /\ UNCHANGED <<write_dirty_tiles, force_full_update, palette_rgb565, notify_value,
                   modeVars, pend, pend_i, markHist, cycleHist>>
    /\ ProducerUnchanged

\* VideoSignalFrameReady: if (video_task_handle != NULL) xTaskNotifyGive(video_task_handle)
SignalNotify ==
    /\ ppc = "notify"
    /\ notify_value' = IF video_task_handle # "NULL"
                        THEN Min(notify_value + 1, MaxNotify) ELSE notify_value
    /\ ppc' = "idle"
    /\ UNCHANGED <<write_dirty_tiles, force_full_update, palette_rgb565, frame_ready,
                   modeVars, pend, pend_i, markHist, cycleHist>>
    /\ ProducerUnchanged

\* the same step where the notification value is followed up to cap
SignalNotifyUpTo(cap) ==
    /\ ppc = "notify"
    /\ notify_value' = IF video_task_handle # "NULL"
                        THEN Min(notify_value + 1, cap) ELSE notify_value
    /\ ppc' = "idle"
    /\ UNCHANGED <<write_dirty_tiles, force_full_update, palette_rgb565, frame_ready,
                   modeVars, pend, pend_i, markHist, cycleHist>>
    /\ ProducerUnchanged

\* set_palette(pal, num): the loop inside the critical section
SetPaletteWrite(user, num) ==
    /\ ppc = "idle"
    /\ palette_rgb565' = SetPaletteEntries(palette_rgb565, user, num)
    /\ ppc' = "pal_force"
    /\ UNCHANGED <<write_dirty_tiles, force_full_update, frame_ready, notify_value,
                   modeVars, pend, pend_i, markHist, cycleHist>>
    /\ ProducerUnchanged

\* set_palette: force_full_update = true, and return
SetPaletteForce ==
    /\ ppc = "pal_force"
    /\ force_full_update' = TRUE
    /\ pal_owed' = TRUE
    /\ ppc' = "idle"
    /\ UNCHANGED <<write_dirty_tiles, palette_rgb565, frame_ready, notify_value,
                   modeVars, pend, pend_i, markHist, cyc_pal_owed, woke_early, tile_log,
                   push_log, full_log, cycle_kind>>
    /\ ProducerUnchanged

\* switch_to_current_mode: updateVideoStateCache(mode.depth, mode.bytes_per_row)
SwitchCache(d) ==
    /\ ppc = "idle"
    /\ LET c == updateVideoStateCache(d, TrivialBytesPerRow(MAC_SCREEN_WIDTH, d))
       IN /\ current_depth' = c.depth
          /\ current_bytes_per_row' = c.bpr
          /\ current_pixels_per_byte' = c.ppb
          /\ current_bit_shift' = c.shift
          /\ current_pixel_mask' = c.mask
    /\ ppc' = "sw_palette"
    /\ UNCHANGED <<write_dirty_tiles, force_full_update, palette_rgb565, frame_ready,
                   notify_value, pend, pend_i, markHist, cycleHist>>
    /\ ProducerUnchanged

\* switch_to_current_mode: initDefaultPalette(mode.depth), its critical section
SwitchPalette ==
    /\ ppc = "sw_palette"
    /\ palette_rgb565' = initDefaultPalette(palette_rgb565, current_depth)
    /\ ppc' = "sw_palette_force"
    /\ UNCHANGED <<write_dirty_tiles, force_full_update, frame_ready, notify_value,
                   modeVars, pend, pend_i, markHist, cycleHist>>
    /\ ProducerUnchanged

\* initDefaultPalette: force_full_update = true, and return
SwitchPaletteForce ==
    /\ ppc = "sw_palette_force"
    /\ force_full_update' = TRUE
    /\ ppc' = "sw_force"
    /\ UNCHANGED <<write_dirty_tiles, palette_rgb565, frame_ready, notify_value,
                   modeVars, pend, pend_i, markHist, cycleHist>>
    /\ ProducerUnchanged

\* switch_to_current_mode: force_full_update = true, and return
SwitchForce ==
    /\ ppc = "sw_force"
    /\ force_full_update' = TRUE
    /\ ppc' = "idle"
    /\ UNCHANGED <<write_dirty_tiles, palette_rgb565, frame_ready, notify_value,
                   modeVars, pend, pend_i, markHist, cycleHist>>
    /\ ProducerUnchanged

(***************************************************************************)
(* The render task (core 0): videoRenderTaskOptimized                      *)
(***************************************************************************)
\* what no step of the render task changes
ConsumerFixed == UNCHANGED <<producerVars, seqVars, modeVars, lifeVars, decVars, lockVars, tileVars, healVars, fallbackVars, cacheVars, cmpVars,
                             use_write_dirty_tracking, frame_buffer_size, palette_rgb565>>

ConsumerUnchanged == ConsumerFixed /\ UNCHANGED <<frameVars, accessVars>>

\* while (video_task_running): where the task goes from the end of the loop
\* body, or from a continue
LoopTest == IF video_task_running THEN "wait" ELSE "exited"

\* the tiles of word i of a bitmap
WordTiles(i) == {t \in 0..(DIRTY_WORDS * 32 - 1) : t \div 32 = i}

\* mutant: the window origin is not scaled to display pixels
TileWindow_Unscaled(t) ==
    <<(t % TILES_X) * TILE_WIDTH, (t \div TILES_X) * TILE_HEIGHT,
      TILE_WIDTH * PIXEL_SCALE, TILE_HEIGHT * PIXEL_SCALE>>

\* the window renderAndPushDirtyTiles pushes tile t to: <<x, y, w, h>>
TileWindow(t) ==
    <<(t % TILES_X) * (TILE_WIDTH * PIXEL_SCALE), (t \div TILES_X) * (TILE_HEIGHT * PIXEL_SCALE),
      TILE_WIDTH * PIXEL_SCALE, TILE_HEIGHT * PIXEL_SCALE>>

\* the window of pushFramebufferToDisplay
FullWindow == <<0, 0, MAC_SCREEN_WIDTH * PIXEL_SCALE, MAC_SCREEN_HEIGHT * PIXEL_SCALE>>

\* mutant: the wait has no timeout
WakeReady_NoTimeout == notify_value > 0

\* when ulTaskNotifyTake(pdTRUE, min_frame_ticks) returns: a notification is
\* pending, or the timeout has expired
WakeReady == notify_value > 0 \/ clk_wait >= min_frame_ticks

\* mutant: no rate limit
RateLimited_Never(render, ticks) == FALSE

\* if (should_render && elapsed < min_frame_ticks) continue;
RateLimited(render, ticks) == render /\ ticks < min_frame_ticks

\* mutant: the tile is converted from the live framebuffer
TileSource_Live == "mac_frame_buffer"

\* what the pixel conversion of a tile reads: renderTileFromSnapshot(tile_snapshot, ...)
TileSource == "tile_snapshot"

\* what the pixel conversion of renderFrameToDSI reads: pixel_row = src_row in
\* 8-bit mode, pixel_row = decoded_row in the packed modes
FullSource(depth) == IF depth = "VDEPTH_8BIT" THEN "mac_frame_buffer" ELSE "decoded_row"

\* mutant: ulTaskNotifyTake(pdFALSE, ...) takes one notification
Wake_TakeOne ==
    /\ pc = "wait"
    /\ WakeReady
    /\ notification' = notify_value
    /\ notify_value' = IF notify_value > 0 THEN notify_value - 1 ELSE 0
    /\ clk_wait' = 0
    /\ pc' = "flag"
    /\ owe' = owe \cup fresh
    /\ must' = must \cup fresh_all
    /\ fresh' = {}
    /\ fresh_all' = {}
    /\ cyc_pal_owed' = (cyc_pal_owed \/ pal_owed)
    /\ pal_owed' = FALSE
    /\ woke_early' = (clk_render < min_frame_ticks)
    /\ UNCHANGED <<write_dirty_tiles, dirty_tiles, dirty_tile_count, force_full_update,
                   frame_ready, should_render, elapsed, do_full_update, local_palette,
                   collect_i, collect_count, tile_idx, render_src, render_depth, live_read,
                   clk_frame, clk_now, clk_render, unseen, got,
                   tile_log, push_log, full_log, cycle_kind>>
    /\ ConsumerUnchanged

\* ulTaskNotifyTake returns
Wake ==
    /\ pc = "wait"
    /\ WakeReady
    /\ notification' = notify_value
    /\ notify_value' = 0
    /\ clk_wait' = 0
    /\ pc' = "flag"
    /\ owe' = owe \cup fresh
    /\ must' = must \cup fresh_all
    /\ fresh' = {}
    /\ fresh_all' = {}
    /\ cyc_pal_owed' = (cyc_pal_owed \/ pal_owed)
    /\ pal_owed' = FALSE
    /\ woke_early' = (clk_render < min_frame_ticks)
    /\ UNCHANGED <<write_dirty_tiles, dirty_tiles, dirty_tile_count, force_full_update,
                   frame_ready, should_render, elapsed, do_full_update, local_palette,
                   collect_i, collect_count, tile_idx, render_src, render_depth, live_read,
                   clk_frame, clk_now, clk_render, unseen, got,
                   tile_log, push_log, full_log, cycle_kind>>
    /\ ConsumerUnchanged

\* bool should_render = (notification > 0) || frame_ready
ReadFlag ==
    /\ pc = "flag"
    /\ should_render' = ((notification > 0) \/ frame_ready)
    /\ pc' = "gate"
    /\ UNCHANGED <<sharedVars, notification, elapsed, do_full_update, local_palette,
                   collect_i, collect_count, tile_idx, render_src, render_depth, live_read,
                   clockVars, markHist, cycleHist>>
    /\ ConsumerUnchanged

\* mutant: a rate-limited wake empties the accumulator
Gate_LimitedDrains ==
    /\ pc = "gate"
    /\ frame_ready' = FALSE
    /\ elapsed' = clk_frame
    /\ clk_now' = 0
    /\ write_dirty_tiles' = IF RateLimited(should_render, clk_frame) THEN ZeroBitmap
                            ELSE write_dirty_tiles
    /\ pc' = IF RateLimited(should_render, clk_frame) THEN LoopTest ELSE "palette"
    /\ UNCHANGED <<dirty_tiles, dirty_tile_count, force_full_update,
                   notify_value, notification, should_render, do_full_update,
                   local_palette, collect_i, collect_count, tile_idx, render_src, render_depth,
                   live_read, clk_frame, clk_wait, clk_render, markHist, cycleHist>>
    /\ ConsumerUnchanged

\* frame_ready = false; now = xTaskGetTickCount(); the rate limit
Gate ==
    /\ pc = "gate"
    /\ frame_ready' = FALSE
    /\ elapsed' = clk_frame
    /\ clk_now' = 0
    /\ pc' = IF RateLimited(should_render, clk_frame) THEN LoopTest ELSE "palette"
    /\ UNCHANGED <<write_dirty_tiles, dirty_tiles, dirty_tile_count, force_full_update,
                   notify_value, notification, should_render, do_full_update,
                   local_palette, collect_i, collect_count, tile_idx, render_src, render_depth,
                   live_read, clk_frame, clk_wait, clk_render, markHist, cycleHist>>
    /\ ConsumerUnchanged

\* the palette copy inside the critical section
CopyPalette ==
    /\ pc = "palette"
    /\ local_palette' = palette_rgb565
    /\ pc' = "decide"
    /\ UNCHANGED <<sharedVars, notification, should_render, elapsed, do_full_update,
                   collect_i, collect_count, tile_idx, render_src, render_depth, live_read,
                   clockVars, markHist, cycleHist>>
    /\ ConsumerUnchanged

\* bool do_full_update = force_full_update; the branch on it and on
\* use_write_dirty_tracking (always true: nothing ever clears it, so the
\* comparison fallback is never entered)
\* mutant: the decision does not read force_full_update
Decide_IgnoresForce ==
    /\ pc = "decide"
    /\ force_full_update \/ use_write_dirty_tracking
    /\ do_full_update' = FALSE
    /\ collect_i' = 0
    /\ collect_count' = 0
    /\ pc' = IF use_write_dirty_tracking THEN "collect" ELSE "render"
    /\ UNCHANGED <<sharedVars, notification, should_render, elapsed, local_palette,
                   tile_idx, render_src, render_depth, live_read, clockVars,
                   markHist, cycleHist>>
    /\ ConsumerUnchanged

\* mutant: the accumulator is drained in a forced cycle too
Decide_AlwaysDrain ==
    /\ pc = "decide"
    /\ force_full_update \/ use_write_dirty_tracking
    /\ do_full_update' = force_full_update
    /\ collect_i' = 0
    /\ collect_count' = 0
    /\ pc' = IF use_write_dirty_tracking THEN "collect" ELSE "render"
    /\ UNCHANGED <<sharedVars, notification, should_render, elapsed, local_palette,
                   tile_idx, render_src, render_depth, live_read, clockVars,
                   markHist, cycleHist>>
    /\ ConsumerUnchanged

\* bool do_full_update = force_full_update; the drain and the threshold test
\* are in the else branch of if (!do_full_update && use_write_dirty_tracking)
Decide ==
    /\ pc = "decide"
    /\ force_full_update \/ use_write_dirty_tracking
    /\ do_full_update' = force_full_update
    /\ collect_i' = 0
    /\ collect_count' = 0
    /\ pc' = IF ~force_full_update /\ use_write_dirty_tracking THEN "collect" ELSE "render"
    /\ UNCHANGED <<sharedVars, notification, should_render, elapsed, local_palette,
                   tile_idx, render_src, render_depth, live_read, clockVars,
                   markHist, cycleHist>>
    /\ ConsumerUnchanged

\* one iteration of the loop of collectWriteDirtyTiles; after the last one
\* dirty_tile_count = count and the threshold test
Collect ==
    /\ pc = "collect"
    /\ LET r == CollectWord(write_dirty_tiles, dirty_tiles, collect_count, collect_i)
       IN /\ write_dirty_tiles' = r.acc
          /\ dirty_tiles' = r.dirty
          /\ collect_count' = r.count
          /\ IF collect_i + 1 >= DIRTY_WORDS
             THEN /\ dirty_tile_count' = r.count
                  /\ do_full_update' = (r.count > dirty_threshold)
                  /\ pc' = "render"
             ELSE /\ UNCHANGED <<dirty_tile_count, do_full_update>>
                  /\ pc' = "collect"
    /\ collect_i' = collect_i + 1
    /\ got' = got \cup (unseen \cap WordTiles(collect_i))
    /\ unseen' = unseen \ WordTiles(collect_i)
    /\ UNCHANGED <<force_full_update, frame_ready, notify_value, notification,
                   should_render, elapsed, local_palette, tile_idx, render_src, render_depth, live_read,
                   clockVars, fresh, fresh_all, owe, must, cycleHist>>
    /\ ConsumerUnchanged

\* renderFrameToDSI(mac_frame_buffer): returns at once if src_buffer or
\* dsi_framebuffer is null; else its own copy of the palette, then every
\* row of the live framebuffer, converted from src_row itself (8-bit) or from
\* decoded_row (packed modes)
FullRender ==
    /\ pc = "render"
    /\ do_full_update
    /\ LET rendered == mac_frame_buffer # "NULL" /\ dsi_framebuffer # "NULL"
       IN /\ frame_palette' = IF rendered THEN palette_rgb565 ELSE frame_palette
          /\ render_depth' = IF rendered THEN current_depth ELSE render_depth
          /\ render_src' = IF rendered THEN FullSource(current_depth) ELSE render_src
          /\ pal_owed' = (pal_owed /\ ~rendered)
          /\ live_read' = IF rendered THEN AllTiles ELSE live_read
          /\ full_log' = IF rendered THEN full_log + 1 ELSE full_log
          /\ owe' = IF rendered THEN {} ELSE owe
          /\ fresh' = IF rendered THEN {} ELSE fresh
          /\ uaf' = (uaf \/ (rendered /\ ~({mac_frame_buffer, dsi_framebuffer} \subseteq heap)))
    /\ pc' = "push"
    /\ UNCHANGED <<sharedVars, notification, should_render, elapsed, do_full_update,
                   local_palette, collect_i, collect_count, tile_idx, clockVars,
                   unseen, got, fresh_all, must, cyc_pal_owed, woke_early,
                   tile_log, push_log, cycle_kind, src_buffer, nullderef>>
    /\ ConsumerFixed

\* pushFramebufferToDisplay(): returns at once if dsi_framebuffer is null
FullPush ==
    /\ pc = "push"
    /\ push_log' = IF dsi_framebuffer # "NULL" THEN Append(push_log, FullWindow) ELSE push_log
    /\ clk_render' = IF dsi_framebuffer # "NULL" THEN 0 ELSE clk_render
    /\ uaf' = (uaf \/ (dsi_framebuffer # "NULL" /\ dsi_framebuffer \notin heap))
    /\ pc' = "clear"
    /\ UNCHANGED <<sharedVars, notification, should_render, elapsed, do_full_update,
                   local_palette, collect_i, collect_count, tile_idx, render_src, render_depth,
                   live_read, clk_frame, clk_now, clk_wait, markHist, pal_owed,
                   cyc_pal_owed, woke_early, tile_log, full_log, cycle_kind,
                   frameVars, src_buffer, nullderef>>
    /\ ConsumerFixed

\* force_full_update = false; perf_full_count++
FullClear ==
    /\ pc = "clear"
    /\ force_full_update' = FALSE
    /\ cycle_kind' = "full"
    /\ pc' = "end"
    /\ UNCHANGED <<write_dirty_tiles, dirty_tiles, dirty_tile_count, frame_ready,
                   notify_value, notification, should_render, elapsed, do_full_update,
                   local_palette, collect_i, collect_count, tile_idx, render_src, render_depth,
                   live_read, clockVars, markHist, pal_owed, cyc_pal_owed, woke_early,
                   tile_log, push_log, full_log>>
    /\ ConsumerUnchanged

\* else if (dirty_tile_count > 0): renderAndPushDirtyTiles(mac_frame_buffer,
\* local_palette) begins
TilesBegin ==
    /\ pc = "render"
    /\ ~do_full_update
    /\ dirty_tile_count > 0
    /\ tile_idx' = 0
    /\ src_buffer' = mac_frame_buffer
    /\ pc' = "tiles"
    /\ UNCHANGED <<sharedVars, notification, should_render, elapsed, do_full_update,
                   local_palette, collect_i, collect_count, render_src, render_depth, live_read,
                   clockVars, markHist, cycleHist, frameVars, uaf, nullderef>>
    /\ ConsumerFixed

\* the dirty tiles the loop of renderAndPushDirtyTiles has not reached yet
DirtyFrom(k) == {t \in k..(TOTAL_TILES - 1) : isTileDirty(t)}

NextDirty(k) == CHOOSE t \in DirtyFrom(k) : \A u \in DirtyFrom(k) : t <= u

\* the loop runs up to its next dirty tile: snapshotTile of that tile from
\* src_buffer, with no test of the pointer, renderTileFromSnapshot(
\* tile_snapshot, ...), setAddrWindow and writePixels.  The reads through a
\* null src_buffer are undefined: the task faults there, or goes on with
\* whatever the reads returned
TileStep ==
    /\ pc = "tiles"
    /\ DirtyFrom(tile_idx) # {}
    /\ LET t == NextDirty(tile_idx)
       IN /\ live_read' = {t}
          /\ render_depth' = current_depth
          /\ render_src' = TileSource
          /\ tile_log' = Append(tile_log, t)
          /\ push_log' = Append(push_log, TileWindow(t))
          /\ tile_idx' = t + 1
          /\ owe' = owe \ {t}
          /\ fresh' = fresh \ {t}
    /\ uaf' = (uaf \/ (src_buffer # "NULL" /\ src_buffer \notin heap))
    /\ nullderef' = (nullderef \/ src_buffer = "NULL")
    /\ pc' \in (IF src_buffer = "NULL" THEN {"tiles", "crashed"} ELSE {"tiles"})
    /\ UNCHANGED <<sharedVars, notification, should_render, elapsed, do_full_update,
                   local_palette, collect_i, collect_count, clockVars,
                   unseen, got, fresh_all, must, pal_owed, cyc_pal_owed, woke_early,
                   full_log, cycle_kind, frameVars, src_buffer>>
    /\ ConsumerFixed

\* the loop has passed the last tile; perf_partial_count++
TilesDone ==
    /\ pc = "tiles"
    /\ DirtyFrom(tile_idx) = {}
    /\ tile_idx' = TOTAL_TILES
    /\ src_buffer' = "NULL"
    /\ cycle_kind' = "partial"
    /\ clk_render' = 0
    /\ pc' = "end"
    /\ UNCHANGED <<sharedVars, notification, should_render, elapsed, do_full_update,
                   local_palette, collect_i, collect_count, render_src, render_depth, live_read,
                   clk_frame, clk_now, clk_wait, markHist, pal_owed, cyc_pal_owed,
                   woke_early, tile_log, push_log, full_log, frameVars, uaf, nullderef>>
    /\ ConsumerFixed

\* mutant: the skip branch clears force_full_update too
Skip_ClearsForce ==
    /\ pc = "render"
    /\ ~do_full_update
    /\ dirty_tile_count = 0
    /\ cycle_kind' = "skip"
    /\ pc' = "end"
    /\ force_full_update' = FALSE
    /\ UNCHANGED <<write_dirty_tiles, dirty_tiles, dirty_tile_count, frame_ready,
                   notify_value, notification, should_render, elapsed, do_full_update,
                   local_palette, collect_i, collect_count, tile_idx, render_src, render_depth,
                   live_read, clockVars, markHist, pal_owed, cyc_pal_owed, woke_early,
                   tile_log, push_log, full_log>>
    /\ ConsumerUnchanged

\* mutant: the skip branch pushes the framebuffer
Skip_Pushes ==
    /\ pc = "render"
    /\ ~do_full_update
    /\ dirty_tile_count = 0
    /\ cycle_kind' = "skip"
    /\ pc' = "end"
    /\ UNCHANGED <<sharedVars, notification, should_render, elapsed, do_full_update,
                   local_palette, collect_i, collect_count, tile_idx, render_src, render_depth,
                   live_read, clockVars, markHist, pal_owed, cyc_pal_owed, woke_early,
                   tile_log, full_log>>
    /\ push_log' = Append(push_log, FullWindow)
    /\ ConsumerUnchanged

\* no tile dirty: perf_skip_count++
Skip ==
    /\ pc = "render"
    /\ ~do_full_update
    /\ dirty_tile_count = 0
    /\ cycle_kind' = "skip"
    /\ pc' = "end"
    /\ UNCHANGED <<sharedVars, notification, should_render, elapsed, do_full_update,
                   local_palette, collect_i, collect_count, tile_idx, render_src, render_depth,
                   live_read, clockVars, markHist, pal_owed, cyc_pal_owed, woke_early,
                   tile_log, push_log, full_log>>
    /\ ConsumerUnchanged

\* perf_frame_count++; last_frame_ticks = now; back to the top of the loop.
\* The locals are dead here: each is assigned again before its next read.
EndCycle ==
    /\ pc = "end"
    /\ clk_frame' = clk_now
    /\ clk_now' = 0
    /\ clk_wait' = 0
    /\ pc' = LoopTest
    /\ notification' = 0
    /\ should_render' = FALSE
    /\ elapsed' = 0
    /\ do_full_update' = FALSE
    /\ local_palette' = ZeroPalette
    /\ collect_i' = 0
    /\ collect_count' = 0
    /\ tile_idx' = 0
    /\ render_src' = "none"
    /\ render_depth' = "none"
    /\ live_read' = {}
    /\ got' = {}
    /\ must' = {}
    /\ cyc_pal_owed' = FALSE
    /\ tile_log' = <<>>
    /\ push_log' = <<>>
    /\ full_log' = 0
    /\ cycle_kind' = "none"
    /\ UNCHANGED <<sharedVars, clk_render, unseen, fresh, fresh_all, owe, pal_owed,
                   woke_early>>
    /\ ConsumerUnchanged

ConsumerNext ==
    \/ Wake
    \/ ReadFlag
    \/ Gate
    \/ CopyPalette
    \/ Decide
    \/ Collect
    \/ FullRender
    \/ FullPush
    \/ FullClear
    \/ TilesBegin
    \/ TileStep
    \/ TilesDone
    \/ Skip
    \/ EndCycle

\* the emulator marks bytes of one tile and signals
SignalNext ==
    \/ \E o \in SignalOffsets : MarkOffsetCall(o)
    \/ \E r \in SchedRanges : MarkRangeCall(r[1], r[2])
    \/ MarkOr
    \/ SignalFlag
    \/ SignalNotify

Next == ConsumerNext \/ SignalNext \/ Tick

\* the emulator marks bytes and ranges of two tiles, in different words of
\* the bitmap, and never signals
MarkNext ==
    \/ \E o \in SchedOffsets : MarkOffsetCall(o)
    \/ \E r \in SchedRanges : MarkRangeCall(r[1], r[2])
    \/ MarkOr

NextMarks == ConsumerNext \/ MarkNext \/ Tick

SpecMarks == Init /\ [][NextMarks]_vars

Spec == Init /\ [][Next]_vars

\* the same program with the scheduling the firmware gives it: the render
\* task is never starved (it is the only task pinned to its core at its
\* priority) and the tick count advances
SpecFair ==
    /\ Init
    /\ [][Next]_vars
    /\ WF_vars(ConsumerNext)
    /\ WF_vars(Tick)

\* the emulator changes the palette and the video mode, and marks one byte
ModeOffsets == {9}

ModeNext ==
    \/ \E d \in SchedDepths : SwitchCache(d)
    \/ SwitchPalette
    \/ SwitchPaletteForce
    \/ SwitchForce
    \/ \E o \in ModeOffsets : MarkOffsetCall(o)
    \/ MarkOr

NextMode == ConsumerNext \/ ModeNext \/ Tick

\* VideoSignalFrameReady is never called: the emulator marks and changes the
\* palette, the render task is scheduled and the tick count advances
NoSignalNext ==
    \/ \E o \in ModeOffsets : MarkOffsetCall(o)
    \/ MarkOr
    \/ \E u \in UserPalettes, n \in UserNums : SetPaletteWrite(u, n)
    \/ SetPaletteForce

NextNoSignal == ConsumerNext \/ NoSignalNext \/ Tick

SpecNoSignal ==
    /\ Init
    /\ [][NextNoSignal]_vars
    /\ WF_vars(ConsumerNext)
    /\ WF_vars(Tick)

\* the first frame has been rendered (force_full_update is clear) and the
\* emulator has redrawn the tile rows 0..6 with one VideoMarkDirtyRange call:
\* 112 tiles are set in the accumulator; it goes on marking four tiles of
\* tile row 7, one __atomic_or_fetch at a time
ThresholdBase == <<0, 7 * TILE_HEIGHT * MAC_SCREEN_WIDTH>>

ThresholdRanges == {<<7 * TILE_HEIGHT * MAC_SCREEN_WIDTH, 4 * TILE_WIDTH>>}

InitThreshold ==
    InitState(VideoMarkDirtyRange(ZeroBitmap, ThresholdBase[1], ThresholdBase[2], TRUE,
                                  MAC_SCREEN_WIDTH * MAC_SCREEN_HEIGHT,
                                  TrivialBytesPerRow(MAC_SCREEN_WIDTH, "VDEPTH_8BIT"), 1),
              FALSE)

ThresholdNext ==
    \/ \E r \in ThresholdRanges : MarkRangeCall(r[1], r[2])
    \/ MarkOr

NextThreshold == ConsumerNext \/ ThresholdNext \/ Tick

SpecThreshold == InitThreshold /\ [][NextThreshold]_vars

\* the same producer, started as VideoInit leaves the flag (force_full_update
\* set) with the tiles of ThresholdBase already in the accumulator: the first
\* cycle is a forced one, the second drains
InitForced ==
    InitState(VideoMarkDirtyRange(ZeroBitmap, ThresholdBase[1], ThresholdBase[2], TRUE,
                                  MAC_SCREEN_WIDTH * MAC_SCREEN_HEIGHT,
                                  TrivialBytesPerRow(MAC_SCREEN_WIDTH, "VDEPTH_8BIT"), 1),
              TRUE)

SpecForced == InitForced /\ [][NextThreshold]_vars

PaletteNext ==
    \/ \E u \in UserPalettes, n \in UserNums : SetPaletteWrite(u, n)
    \/ SetPaletteForce
    \/ \E o \in ModeOffsets : MarkOffsetCall(o)
    \/ MarkOr
    \/ SignalFlag
    \/ SignalNotify

NextPalette == ConsumerNext \/ PaletteNext \/ Tick

SpecPalette == Init /\ [][NextPalette]_vars

SpecMode == Init /\ [][NextMode]_vars

(***************************************************************************)
(* renderAndPushDirtyTiles, one statement of the loop body at a time, with *)
(* the emulator writing pixels and palette entries in between              *)
(***************************************************************************)
\* the sample bytes snapshotTile reads for tile t at 8 bits per pixel:
\* src_buffer + (tile_y * TILE_HEIGHT + row) * bpr + tile_x * TILE_WIDTH + col
BytesOfTile(t, bpr) ==
    {o \in TileBytes : /\ (o \div bpr) \div TILE_HEIGHT = t \div TILES_X
                        /\ (o % bpr) \div TILE_WIDTH = t % TILES_X}

TileUnchanged == UNCHANGED <<sharedVars, producerVars, seqVars, modeVars, lifeVars, decVars,
                             lockVars, healVars, fallbackVars, cacheVars, cmpVars, clockVars, frameVars, accessVars, notification,
                             should_render, elapsed, do_full_update, local_palette,
                             collect_i, collect_count, unseen, got, fresh_all, must,
                             pal_owed, cyc_pal_owed, woke_early, full_log, cycle_kind>>

\* if (!isTileDirty(tile_idx)) continue; then snapshotTile is entered for
\* the next dirty tile
TileNext ==
    /\ pc = "tiles"
    /\ tpc = "next"
    /\ DirtyFrom(tile_idx) # {}
    /\ tile_idx' = NextDirty(tile_idx)
    /\ snap_left' = BytesOfTile(NextDirty(tile_idx), current_bytes_per_row)
    /\ tpc' = "snapshot"
    /\ pushed' = <<>>
    /\ UNCHANGED <<pc, mac_pixels, tile_snapshot, tile_buffer, render_src,
                   render_depth, live_read, tile_log, push_log, owe, fresh>>
    /\ TileUnchanged

\* snapshotTile, 8-bit mode: memcpy(dst, src, TILE_WIDTH) row after row,
\* here the next sample byte in address order; the emulator may write
\* between two bytes
TileSnapshotByte ==
    /\ pc = "tiles"
    /\ tpc = "snapshot"
    /\ snap_left # {}
    /\ LET o == CHOOSE a \in snap_left : \A b \in snap_left : a <= b
       IN /\ tile_snapshot' = [a \in (BytesOfTile(tile_idx, current_bytes_per_row)
                                       \ (snap_left \ {o})) |->
                                   IF a = o THEN mac_pixels[o] ELSE tile_snapshot[a]]
          /\ snap_left' = snap_left \ {o}
    /\ live_read' = {tile_idx}
    /\ UNCHANGED <<pc, tpc, tile_idx, mac_pixels, tile_buffer, pushed, render_src,
                   render_depth, tile_log, push_log, owe, fresh>>
    /\ TileUnchanged

\* snapshotTile has returned; __sync_synchronize()
TileBarrier ==
    /\ pc = "tiles"
    /\ tpc = "snapshot"
    /\ snap_left = {}
    /\ tpc' = "convert"
    /\ UNCHANGED <<pc, tile_idx, mac_pixels, snap_left, tile_snapshot, tile_buffer, pushed,
                   render_src, render_depth, live_read, tile_log, push_log, owe, fresh>>
    /\ TileUnchanged

\* mutant: the conversion looks the colours up in the live palette table
TileConvert_LivePalette ==
    /\ pc = "tiles"
    /\ tpc = "convert"
    /\ tile_buffer' = [a \in DOMAIN tile_snapshot |-> palette_rgb565[tile_snapshot[a]]]
    /\ render_src' = TileSource
    /\ render_depth' = current_depth
    /\ tpc' = "push"
    /\ UNCHANGED <<pc, tile_idx, mac_pixels, snap_left, tile_snapshot, pushed,
                   live_read, tile_log, push_log, owe, fresh>>
    /\ TileUnchanged

\* renderTileFromSnapshot(tile_snapshot, local_palette, tile_buffer)
TileConvert ==
    /\ pc = "tiles"
    /\ tpc = "convert"
    /\ tile_buffer' = [a \in DOMAIN tile_snapshot |-> local_palette[tile_snapshot[a]]]
    /\ render_src' = TileSource
    /\ render_depth' = current_depth
    /\ tpc' = "push"
    /\ UNCHANGED <<pc, tile_idx, mac_pixels, snap_left, tile_snapshot, pushed,
                   live_read, tile_log, push_log, owe, fresh>>
    /\ TileUnchanged

\* setAddrWindow(tx * 80, ty * 80, 80, 80); writePixels(tile_buffer, 80 * 80);
\* the loop goes on with the next tile index.  tile_snapshot and tile_buffer
\* are dead from here: each is written whole before its next read
TilePush ==
    /\ pc = "tiles"
    /\ tpc = "push"
    /\ pushed' = tile_buffer
    /\ tile_snapshot' = <<>>
    /\ tile_buffer' = <<>>
    /\ tile_log' = Append(tile_log, tile_idx)
    /\ push_log' = Append(push_log, TileWindow(tile_idx))
    /\ owe' = owe \ {tile_idx}
    /\ fresh' = fresh \ {tile_idx}
    /\ tile_idx' = tile_idx + 1
    /\ tpc' = "next"
    /\ UNCHANGED <<pc, mac_pixels, snap_left, render_src, render_depth, live_read>>
    /\ TileUnchanged

\* a frame buffer put function of the emulator stores one pixel; its call
\* of VideoMarkDirtyOffset is MarkOffsetCall
WriteByte(o, v) ==
    /\ ppc = "idle"
    /\ mac_pixels[o] # v
    /\ mac_pixels' = [mac_pixels EXCEPT ![o] = v]
    /\ UNCHANGED <<sharedVars, modeVars, consumerVars, clockVars, producerVars, markHist,
                   cycleHist, seqVars, frameVars, lifeVars, accessVars, decVars, lockVars,
                   healVars, fallbackVars, cacheVars, cmpVars, tpc, snap_left, tile_snapshot, tile_buffer, pushed>>

TileConsumerNext ==
    \/ Wake
    \/ ReadFlag
    \/ Gate
    \/ CopyPalette
    \/ Decide
    \/ Collect
    \/ FullRender
    \/ FullPush
    \/ FullClear
    \/ TilesBegin
    \/ TileNext
    \/ TileSnapshotByte
    \/ TileBarrier
    \/ TileConvert
    \/ TilePush
    \/ TilesDone
    \/ Skip
    \/ EndCycle

\* the emulator stores pixels and sets the palette
TileProducerNext ==
    \/ \E o \in TileBytes, v \in PixelSample : WriteByte(o, v)
    \/ \E u \in UserPalettes, n \in UserNums : SetPaletteWrite(u, n)
    \/ SetPaletteForce

NextTile == TileConsumerNext \/ TileProducerNext \/ Tick

\* after the first frame, with the tiles of the sample bytes marked in the
\* accumulator (their VideoMarkDirtyOffset calls have returned)
InitTile ==
    InitState(VideoMarkDirtyOffset(
                  VideoMarkDirtyOffset(ZeroBitmap, 45 * MAC_SCREEN_WIDTH + 50, TRUE,
                                       MAC_SCREEN_WIDTH * MAC_SCREEN_HEIGHT,
                                       TrivialBytesPerRow(MAC_SCREEN_WIDTH, "VDEPTH_8BIT"), 1),
                  85 * MAC_SCREEN_WIDTH + 330, TRUE, MAC_SCREEN_WIDTH * MAC_SCREEN_HEIGHT,
                  TrivialBytesPerRow(MAC_SCREEN_WIDTH, "VDEPTH_8BIT"), 1),
              FALSE)

SpecTile == InitTile /\ [][NextTile]_vars

(***************************************************************************)
(* The pixels on display: renderFrameToDSI and pushFramebufferToDisplay    *)
(* pixel by pixel, writePixels of the tile loop, and the emulator storing  *)
(* pixels and marking them, with the palette and the video mode fixed      *)
(***************************************************************************)
HealUnchanged == UNCHANGED <<sharedVars, modeVars, consumerVars, clockVars, producerVars,
                             markHist, cycleHist, seqVars, frameVars, lifeVars, accessVars,
                             decVars, lockVars, tileVars, fallbackVars, cacheVars, cmpVars>>

\* renderFrameToDSI(mac_frame_buffer), 8-bit mode: the next sample pixel of
\* the live framebuffer in row order, looked up in the function's copy of
\* palette_rgb565 (which nothing writes here) and stored 2x2 into
\* dsi_framebuffer; the emulator may write between two pixels
HealRenderByte ==
    /\ pc = "render"
    /\ do_full_update
    /\ mac_frame_buffer # "NULL" /\ dsi_framebuffer # "NULL"
    /\ render_left # {}
    /\ LET o == CHOOSE a \in render_left : \A b \in render_left : a <= b
       IN /\ dsi_pixels' = [d \in PanelPixels |->
                               IF d \in DisplayOf(o) THEN palette_rgb565[mac_pixels[o]]
                               ELSE dsi_pixels[d]]
          /\ render_left' = render_left \ {o}
    /\ UNCHANGED <<panel, puts>>
    /\ HealUnchanged

\* renderFrameToDSI returns
HealRenderReturn ==
    /\ render_left = {}
    /\ FullRender

\* pushFramebufferToDisplay: writePixels(dsi_framebuffer, DISPLAY_WIDTH * DISPLAY_HEIGHT)
HealPushPixels ==
    /\ pc = "push"
    /\ dsi_framebuffer # "NULL"
    /\ render_left = {}
    /\ panel' = dsi_pixels
    /\ render_left' = TileBytes
    /\ UNCHANGED <<dsi_pixels, puts>>
    /\ HealUnchanged

\* pushFramebufferToDisplay returns
HealPushReturn ==
    /\ render_left = TileBytes
    /\ FullPush

\* the display shows tile_buffer in the window of the tile
TileShown == \A o \in DOMAIN tile_buffer : \A d \in DisplayOf(o) : panel[d] = tile_buffer[o]

\* renderAndPushDirtyTiles: writePixels(tile_buffer, 80 * 80) into the
\* window of the tile, each source pixel 2x2
HealTilePixels ==
    /\ pc = "tiles"
    /\ tpc = "push"
    /\ ~TileShown
    /\ panel' = [d \in PanelPixels |->
                    IF SourceOf(d) \in DOMAIN tile_buffer THEN tile_buffer[SourceOf(d)]
                    ELSE panel[d]]
    /\ UNCHANGED <<render_left, dsi_pixels, puts>>
    /\ HealUnchanged

\* writePixels returns
HealTilePushReturn ==
    /\ TileShown
    /\ TilePush

\* mutant: the put function does not call VideoMarkDirtyOffset
HealPut_NoMark(o, v) ==
    /\ ppc = "idle"
    /\ mac_pixels[o] # v
    /\ puts < MaxPuts
    /\ mac_pixels' = [mac_pixels EXCEPT ![o] = v]
    /\ puts' = puts + 1
    /\ UNCHANGED <<sharedVars, modeVars, consumerVars, clockVars, producerVars, markHist,
                   cycleHist, seqVars, frameVars, lifeVars, accessVars, decVars, lockVars,
                   render_left, dsi_pixels, panel, fallbackVars, cacheVars, cmpVars, tpc, snap_left,
                   tile_snapshot,
                   tile_buffer, pushed>>

\* a frame buffer put function of the emulator stores one pixel and calls
\* VideoMarkDirtyOffset(o), here up to its loop (it reads the mode cache,
\* which nothing writes here); the __atomic_or_fetch calls are MarkOr
HealPut(o, v) ==
    /\ ppc = "idle"
    /\ mac_pixels[o] # v
    /\ puts < MaxPuts
    /\ mac_pixels' = [mac_pixels EXCEPT ![o] = v]
    /\ puts' = puts + 1
    /\ pend' = MarkOffsetTiles(o, use_write_dirty_tracking, frame_buffer_size,
                               current_bytes_per_row, current_pixels_per_byte)
    /\ pend_i' = 1
    /\ ppc' = IF pend' = <<>> THEN "idle" ELSE "mark"
    /\ UNCHANGED <<sharedVars, modeVars, consumerVars, clockVars, markHist,
                   cycleHist, seqVars, frameVars, lifeVars, accessVars, decVars, lockVars,
                   render_left, dsi_pixels, panel, fallbackVars, cacheVars, cmpVars, tpc, snap_left,
                   tile_snapshot,
                   tile_buffer, pushed>>

\* the pixels the emulator stores: one in each of two tiles
HealBytes == {45 * MAC_SCREEN_WIDTH + 50, 85 * MAC_SCREEN_WIDTH + 330}

HealPuts == \E o \in HealBytes, v \in PixelSample : HealPut(o, v)

HealConsumerNext ==
    \/ Wake
    \/ ReadFlag
    \/ Gate
    \/ CopyPalette
    \/ Decide
    \/ Collect
    \/ HealRenderByte
    \/ HealRenderReturn
    \/ HealPushPixels
    \/ HealPushReturn
    \/ FullClear
    \/ TilesBegin
    \/ TileNext
    \/ TileSnapshotByte
    \/ TileBarrier
    \/ TileConvert
    \/ HealTilePixels
    \/ HealTilePushReturn
    \/ TilesDone
    \/ Skip
    \/ EndCycle

NextHeal == HealConsumerNext \/ HealPuts \/ MarkOr \/ Tick

\* the render task is never starved and the tick count advances, as in
\* SpecFair; a mark call the emulator has entered returns
SpecHeal ==
    /\ Init
    /\ [][NextHeal]_vars
    /\ WF_vars(HealConsumerNext)
    /\ WF_vars(Tick)
    /\ WF_vars(MarkOr)

(***************************************************************************)
(* The comparison fallback of videoRenderTaskOptimized: the else branch    *)
(* taken when use_write_dirty_tracking is false                            *)
(***************************************************************************)
FallbackUnchanged ==
    UNCHANGED <<write_dirty_tiles, force_full_update, use_write_dirty_tracking, frame_ready,
                frame_buffer_size, palette_rgb565, notify_value, modeVars, notification,
                should_render, elapsed, local_palette, collect_i, collect_count, tile_idx,
                render_src, render_depth, live_read, clockVars, producerVars, markHist,
                cycleHist, seqVars, frameVars, mac_frame_buffer, dsi_framebuffer, heap,
                video_task_running, video_task_handle, vpc, init_alloc, init_result,
                exit_buf, clk_grace, accessVars, decVars, lockVars, tileVars, healVars,
                cacheVars, cmpVars>>

\* bool do_full_update = force_full_update; else if (!do_full_update):
\* takeFrameSnapshot() is entered
DecideFallback ==
    /\ pc = "decide"
    /\ ~force_full_update
    /\ ~use_write_dirty_tracking
    /\ do_full_update' = FALSE
    /\ copy_left' = TileBytes
    /\ pc' = "fb_snapshot"
    /\ UNCHANGED <<dirty_tiles, dirty_tile_count, snapshot_buffer, compare_buffer, buf_pixels>>
    /\ FallbackUnchanged

\* takeFrameSnapshot: memcpy(snapshot_buffer, mac_frame_buffer,
\* frame_buffer_size), here the next sample byte in address order; the
\* emulator may write between two bytes
FallbackSnapshotByte ==
    /\ pc = "fb_snapshot"
    /\ copy_left # {}
    /\ LET o == CHOOSE a \in copy_left : \A b \in copy_left : a <= b
       IN /\ buf_pixels' = [buf_pixels EXCEPT ![snapshot_buffer][o] = mac_pixels[o]]
          /\ copy_left' = copy_left \ {o}
    /\ UNCHANGED <<pc, do_full_update, dirty_tiles, dirty_tile_count, snapshot_buffer,
                   compare_buffer>>
    /\ FallbackUnchanged

\* the tiles detectDirtyTiles(snapshot_buffer, compare_buffer) marks at 8
\* bits per pixel: those with a sample byte that differs (every other byte
\* of the two buffers is 0x80)
FallbackDirty ==
    {t \in AllTiles : \E o \in BytesOfTile(t, current_bytes_per_row) :
                          buf_pixels[snapshot_buffer][o] # buf_pixels[compare_buffer][o]}

\* dirty_tile_count = detectDirtyTiles(snapshot_buffer, compare_buffer); the
\* threshold test; swapBuffers()
FallbackDetect ==
    /\ pc = "fb_snapshot"
    /\ copy_left = {}
    /\ dirty_tiles' = [w \in 0..(DIRTY_WORDS - 1) |->
                          {t % 32 : t \in {u \in FallbackDirty : u \div 32 = w}}]
    /\ dirty_tile_count' = Cardinality(FallbackDirty)
    /\ do_full_update' = (Cardinality(FallbackDirty) > dirty_threshold)
    /\ compare_buffer' = snapshot_buffer
    /\ snapshot_buffer' = compare_buffer
    /\ pc' = "render"
    /\ UNCHANGED <<copy_left, buf_pixels>>
    /\ FallbackUnchanged

FallbackConsumerNext ==
    \/ Wake
    \/ ReadFlag
    \/ Gate
    \/ CopyPalette
    \/ Decide
    \/ DecideFallback
    \/ FallbackSnapshotByte
    \/ FallbackDetect
    \/ HealRenderByte
    \/ HealRenderReturn
    \/ HealPushPixels
    \/ HealPushReturn
    \/ FullClear
    \/ TilesBegin
    \/ TileNext
    \/ TileSnapshotByte
    \/ TileBarrier
    \/ TileConvert
    \/ HealTilePixels
    \/ HealTilePushReturn
    \/ TilesDone
    \/ Skip
    \/ EndCycle

NextFallback == FallbackConsumerNext \/ HealPuts \/ Tick

\* the render task as built with use_write_dirty_tracking false: the mark
\* calls of the emulator return at once
InitFallback == InitStateWith(ZeroBitmap, TRUE, FALSE)

SpecFallback ==
    /\ InitFallback
    /\ [][NextFallback]_vars
    /\ WF_vars(FallbackConsumerNext)
    /\ WF_vars(Tick)

(***************************************************************************)
(* updateVideoStateCache one store at a time on the emulator thread, and   *)
(* the functions of the render task that read the cache into locals        *)
(***************************************************************************)
CacheWriterUnchanged ==
    /\ UNCHANGED <<write_dirty_tiles, force_full_update, palette_rgb565, frame_ready,
                   notify_value, pend, pend_i, markHist, cycleHist>>
    /\ ProducerUnchanged

\* switch_to_current_mode: updateVideoStateCache(mode.depth,
\* mode.bytes_per_row) is entered; current_depth = depth
CacheDepth(d) ==
    /\ ppc = "idle"
    /\ current_depth' = d
    /\ ppc' = "uc_bpr"
    /\ UNCHANGED <<current_bytes_per_row, current_pixels_per_byte, current_bit_shift,
                   current_pixel_mask>>
    /\ CacheWriterUnchanged

\* current_bytes_per_row = bytes_per_row
CacheBpr ==
    /\ ppc = "uc_bpr"
    /\ current_bytes_per_row' = TrivialBytesPerRow(MAC_SCREEN_WIDTH, current_depth)
    /\ ppc' = "uc_ppb"
    /\ UNCHANGED <<current_depth, current_pixels_per_byte, current_bit_shift,
                   current_pixel_mask>>
    /\ CacheWriterUnchanged

\* switch (depth): current_pixels_per_byte = ...
CachePpb ==
    /\ ppc = "uc_ppb"
    /\ current_pixels_per_byte' =
           updateVideoStateCache(current_depth, current_bytes_per_row).ppb
    /\ ppc' = "uc_shift"
    /\ UNCHANGED <<current_depth, current_bytes_per_row, current_bit_shift,
                   current_pixel_mask>>
    /\ CacheWriterUnchanged

\* current_bit_shift = ...
CacheShift ==
    /\ ppc = "uc_shift"
    /\ current_bit_shift' = updateVideoStateCache(current_depth, current_bytes_per_row).shift
    /\ ppc' = "uc_mask"
    /\ UNCHANGED <<current_depth, current_bytes_per_row, current_pixels_per_byte,
                   current_pixel_mask>>
    /\ CacheWriterUnchanged

\* current_pixel_mask = ...; updateVideoStateCache returns
CacheMask ==
    /\ ppc = "uc_mask"
    /\ current_pixel_mask' = updateVideoStateCache(current_depth, current_bytes_per_row).mask
    /\ ppc' = "sw_palette"
    /\ UNCHANGED <<current_depth, current_bytes_per_row, current_pixels_per_byte,
                   current_bit_shift>>
    /\ CacheWriterUnchanged

CacheReaderUnchanged ==
    UNCHANGED <<sharedVars, modeVars, consumerVars, clockVars, producerVars, markHist,
                cycleHist, seqVars, frameVars, lifeVars, accessVars, decVars, lockVars,
                tileVars, healVars, fallbackVars, cmpVars>>

\* the functions of the render task that copy the layout into locals
CacheSites == {"renderFrameToDSI", "snapshotTile"}

\* video_depth depth = current_depth
CacheReadDepth(site) ==
    /\ rd_pc = "idle"
    /\ rd_site' = site
    /\ rd_depth' = current_depth
    /\ rd_pc' = "bpr"
    /\ UNCHANGED rd_bpr
    /\ CacheReaderUnchanged

\* uint32 bpr = current_bytes_per_row
CacheReadBpr ==
    /\ rd_pc = "bpr"
    /\ rd_bpr' = current_bytes_per_row
    /\ rd_pc' = "done"
    /\ UNCHANGED <<rd_site, rd_depth>>
    /\ CacheReaderUnchanged

\* the function returns: its locals are gone
CacheReadReturn ==
    /\ rd_pc = "done"
    /\ rd_pc' = "idle"
    /\ rd_site' = "none"
    /\ rd_depth' = "none"
    /\ rd_bpr' = 0
    /\ CacheReaderUnchanged

NextCache ==
    \/ \E d \in Depths : CacheDepth(d)
    \/ CacheBpr
    \/ CachePpb
    \/ CacheShift
    \/ CacheMask
    \/ SwitchPalette
    \/ SwitchPaletteForce
    \/ SwitchForce
    \/ \E o \in ModeOffsets : MarkOffsetCall(o)
    \/ MarkOr
    \/ \E site \in CacheSites : CacheReadDepth(site)
    \/ CacheReadBpr
    \/ CacheReadReturn

SpecCache == Init /\ [][NextCache]_vars

(***************************************************************************)
(* VideoInit and VideoExit, and the start of the render task               *)
(***************************************************************************)
\* the state before VideoInit is called: the static initialisers
InitLife ==
    /\ DecodeIdle
    /\ LockIdle
    /\ TileIdle
    /\ HealIdle
    /\ FallbackIdle
    /\ CacheIdle
    /\ CmpIdle
    /\ write_dirty_tiles = ZeroBitmap
    /\ dirty_tiles = ZeroBitmap
    /\ dirty_tile_count = 0
    /\ force_full_update = TRUE
    /\ use_write_dirty_tracking = TRUE
    /\ frame_ready = FALSE
    /\ frame_buffer_size = 0
    /\ current_depth = "VDEPTH_8BIT"
    /\ current_bytes_per_row = MAC_SCREEN_WIDTH
    /\ current_pixels_per_byte = 1
    /\ current_bit_shift = 0
    /\ current_pixel_mask = 255
    /\ palette_rgb565 = ZeroPalette
    /\ notify_value = 0
    /\ pc = "notask"
    /\ notification = 0
    /\ should_render = FALSE
    /\ elapsed = 0
    /\ do_full_update = FALSE
    /\ local_palette = ZeroPalette
    /\ collect_i = 0
    /\ collect_count = 0
    /\ tile_idx = 0
    /\ render_src = "none"
    /\ render_depth = "none"
    /\ live_read = {}
    /\ clk_frame = 0
    /\ clk_now = 0
    /\ clk_wait = 0
    /\ clk_render = min_frame_ticks
    /\ ppc = "idle"
    /\ pend = <<>>
    /\ pend_i = 1
    /\ unseen = {}
    /\ got = {}
    /\ fresh = {}
    /\ fresh_all = {}
    /\ owe = {}
    /\ must = {}
    /\ pal_owed = FALSE
    /\ frame_palette = ZeroPalette
    /\ cyc_pal_owed = FALSE
    /\ woke_early = FALSE
    /\ tile_log = <<>>
    /\ push_log = <<>>
    /\ full_log = 0
    /\ cycle_kind = "none"
    /\ seq_marks = 0
    /\ seq_op = "init"
    /\ seq_prev = "init"
    /\ seq_off = 0
    /\ seq_size = 0
    /\ seq_phase = "nomark"
    /\ seq_depth = "none"
    /\ mac_frame_buffer = "NULL"
    /\ snapshot_buffer = "NULL"
    /\ compare_buffer = "NULL"
    /\ dsi_framebuffer = "NULL"
    /\ heap = {}
    /\ video_task_running = FALSE
    /\ video_task_handle = "NULL"
    /\ vpc = "preinit"
    /\ init_alloc = [mac |-> TRUE, snap |-> TRUE, cmp |-> TRUE, dsi |-> TRUE, task |-> TRUE]
    /\ init_result = "none"
    /\ exit_buf = 1
    /\ clk_grace = 0
    /\ src_buffer = "NULL"
    /\ uaf = FALSE
    /\ nullderef = FALSE

\* what the allocations of one VideoInit call return: ps_malloc of
\* mac_frame_buffer, snapshot_buffer, compare_buffer, getDSIFramebuffer, and
\* xTaskCreatePinnedToCore
AllocOutcomes == [mac : BOOLEAN, snap : BOOLEAN, cmp : BOOLEAN, dsi : BOOLEAN, task : BOOLEAN]

\* mutant: the null test of snapshot_buffer and compare_buffer left out
TripleOk_Unchecked(a) == a.mac

\* VideoInit gets past if (!mac_frame_buffer) and
\* if (!snapshot_buffer || !compare_buffer)
TripleOk(a) == a.mac /\ a.snap /\ a.cmp

\* mutant: the null test of dsi_framebuffer left out
BuffersOk_NoDsi(a) == TripleOk(a)

\* VideoInit gets past if (!dsi_framebuffer) too
BuffersOk(a) == TripleOk(a) /\ a.dsi

\* VideoInit, with the outcomes a of its allocations.  It runs before the
\* render task exists; the task it creates starts at the top of
\* videoRenderTaskOptimized.
VideoInit(a) ==
    /\ vpc = "preinit"
    /\ init_alloc' = a
    /\ LET triple == TripleOk(a)
           buffers == BuffersOk(a)
       IN /\ frame_buffer_size' = MAC_SCREEN_WIDTH * MAC_SCREEN_HEIGHT
          /\ mac_frame_buffer' = IF buffers THEN "mac" ELSE "NULL"
          /\ snapshot_buffer' = IF triple THEN "snap" ELSE "NULL"
          /\ compare_buffer' = IF triple THEN "cmp" ELSE "NULL"
          /\ dsi_framebuffer' = IF buffers THEN "dsi" ELSE "NULL"
          /\ heap' = IF buffers THEN {"mac", "snap", "cmp", "dsi"}
                     ELSE IF triple THEN {"snap", "cmp"} ELSE {}
          /\ dirty_tiles' = IF triple THEN ZeroBitmap ELSE dirty_tiles
          /\ force_full_update' = IF triple THEN TRUE ELSE force_full_update
          /\ palette_rgb565' = IF buffers THEN initDefaultPalette(palette_rgb565, "VDEPTH_8BIT")
                               ELSE palette_rgb565
          /\ LET c == updateVideoStateCache("VDEPTH_8BIT",
                          TrivialBytesPerRow(MAC_SCREEN_WIDTH, "VDEPTH_8BIT"))
             IN /\ current_depth' = IF buffers THEN c.depth ELSE current_depth
                /\ current_bytes_per_row' = IF buffers THEN c.bpr ELSE current_bytes_per_row
                /\ current_pixels_per_byte' = IF buffers THEN c.ppb ELSE current_pixels_per_byte
                /\ current_bit_shift' = IF buffers THEN c.shift ELSE current_bit_shift
                /\ current_pixel_mask' = IF buffers THEN c.mask ELSE current_pixel_mask
          /\ video_task_running' = buffers
          /\ video_task_handle' = IF buffers /\ a.task THEN "VideoTask" ELSE "NULL"
          /\ pc' = IF buffers /\ a.task THEN "start" ELSE "notask"
          /\ init_result' = IF buffers THEN "true" ELSE "false"
          /\ vpc' = IF buffers THEN "running" ELSE "failed"
    /\ UNCHANGED <<write_dirty_tiles, dirty_tile_count, use_write_dirty_tracking, frame_ready,
                   notify_value, notification, should_render, elapsed, do_full_update,
                   local_palette, collect_i, collect_count, tile_idx, render_src,
                   render_depth, live_read, clockVars, producerVars, markHist, cycleHist,
                   seqVars, frameVars, exit_buf, clk_grace, accessVars, decVars, lockVars, tileVars, healVars, fallbackVars, cacheVars, cmpVars>>

\* videoRenderTaskOptimized up to the first test of its loop:
\* vTaskDelay(100 ms), last_frame_ticks = xTaskGetTickCount()
TaskStart ==
    /\ pc = "start"
    /\ clk_frame' = 0
    /\ pc' = LoopTest
    /\ UNCHANGED <<sharedVars, notification, should_render, elapsed, do_full_update,
                   local_palette, collect_i, collect_count, tile_idx, render_src,
                   render_depth, live_read, clk_now, clk_wait, clk_render, markHist,
                   cycleHist>>
    /\ ConsumerUnchanged

LifeUnchanged == UNCHANGED <<sharedVars, modeVars, consumerVars, clockVars, producerVars,
                             markHist, cycleHist, seqVars, frameVars, accessVars, decVars,
                             lockVars, tileVars, healVars, fallbackVars, cacheVars, cmpVars>>

\* the buffers in the order VideoExit frees them
ExitOrder == <<"mac_frame_buffer", "snapshot_buffer", "compare_buffer", "dsi_framebuffer">>

\* the value of the pointer VideoExit has reached
ExitPointer ==
    CASE exit_buf = 1 -> mac_frame_buffer
      [] exit_buf = 2 -> snapshot_buffer
      [] exit_buf = 3 -> compare_buffer
      [] OTHER -> dsi_framebuffer

\* VideoExit: stopVideoTask() clears video_task_running and begins its delay
VideoExitStop ==
    /\ vpc \in {"running", "failed"}
    /\ video_task_running' = FALSE
    /\ vpc' = IF video_task_running THEN "delay" ELSE "free"
    /\ exit_buf' = 1
    /\ clk_grace' = 0
    /\ UNCHANGED <<bufferVars, video_task_handle, init_alloc, init_result>>
    /\ LifeUnchanged

\* stopVideoTask: vTaskDelay(pdMS_TO_TICKS(100)) returns; video_task_handle = NULL
VideoExitDelay ==
    /\ vpc = "delay"
    /\ clk_grace >= stop_delay_ticks
    /\ video_task_handle' = "NULL"
    /\ vpc' = "free"
    /\ UNCHANGED <<bufferVars, video_task_running, init_alloc, init_result, exit_buf, clk_grace>>
    /\ LifeUnchanged

\* VideoExit: if (p) free(p), for the pointer it has reached
ExitFreeBuffer ==
    /\ vpc = "free"
    /\ heap' = heap \ {ExitPointer}
    /\ IF ExitPointer # "NULL"
       THEN vpc' = "null" /\ exit_buf' = exit_buf
       ELSE IF exit_buf < Len(ExitOrder)
            THEN vpc' = "free" /\ exit_buf' = exit_buf + 1
            ELSE vpc' = "exited" /\ exit_buf' = exit_buf
    /\ UNCHANGED <<mac_frame_buffer, snapshot_buffer, compare_buffer, dsi_framebuffer,
                   video_task_running, video_task_handle, init_alloc, init_result, clk_grace>>
    /\ LifeUnchanged

\* VideoExit: p = NULL, for the pointer just freed
ExitNullBuffer ==
    /\ vpc = "null"
    /\ mac_frame_buffer' = IF exit_buf = 1 THEN "NULL" ELSE mac_frame_buffer
    /\ snapshot_buffer' = IF exit_buf = 2 THEN "NULL" ELSE snapshot_buffer
    /\ compare_buffer' = IF exit_buf = 3 THEN "NULL" ELSE compare_buffer
    /\ dsi_framebuffer' = IF exit_buf = 4 THEN "NULL" ELSE dsi_framebuffer
    /\ IF exit_buf < Len(ExitOrder)
       THEN vpc' = "free" /\ exit_buf' = exit_buf + 1
       ELSE vpc' = "exited" /\ exit_buf' = exit_buf
    /\ UNCHANGED <<heap, video_task_running, video_task_handle, init_alloc, init_result, clk_grace>>
    /\ LifeUnchanged

\* VideoInit, the render task, the emulator marking one byte and signalling,
\* and VideoExit
LifeNext ==
    \/ \E a \in AllocOutcomes : VideoInit(a)
    \/ TaskStart
    \/ VideoExitStop
    \/ VideoExitDelay
    \/ ExitFreeBuffer
    \/ ExitNullBuffer
    \/ \E o \in ModeOffsets : MarkOffsetCall(o)
    \/ MarkOr
    \/ SignalFlag
    \/ SignalNotify

NextLife == ConsumerNext \/ LifeNext \/ Tick

SpecLife == InitLife /\ [][NextLife]_vars

\* after a successful VideoInit: the render task, the emulator marking bytes
\* and ranges of one tile and signalling, and stopVideoTask, the first call
\* VideoExit makes
StopNext ==
    \/ VideoExitStop
    \/ VideoExitDelay

NextStop == ConsumerNext \/ SignalNext \/ StopNext \/ Tick

SpecStop == Init /\ [][NextStop]_vars

\* the emulator marks a byte and calls VideoSignalFrameReady, any number of
\* times
BurstNext ==
    \/ \E o \in SignalOffsets : MarkOffsetCall(o)
    \/ MarkOr
    \/ SignalFlag
    \/ SignalNotifyUpTo(MaxSignals)

NextBurst == ConsumerNext \/ BurstNext \/ Tick

SpecBurst == Init /\ [][NextBurst]_vars

(***************************************************************************)
(* The palette table under frame_spinlock: set_palette and                 *)
(* initDefaultPalette write it, the render task and renderFrameToDSI copy  *)
(* it, every access to one entry a step of its own                         *)
(***************************************************************************)
\* the order in which the write loops and memcpy reach the entries
PalOrder == <<0, 1, 3, 15, 128, 255>>

LockNums == {2, 256}

CopySites == {"videoRenderTaskOptimized", "renderFrameToDSI"}

\* mutant: the critical section is entered whoever holds the lock
portENTER_CRITICAL_NoSpin(mux) == TRUE

\* portENTER_CRITICAL(&frame_spinlock) returns once the lock is free
portENTER_CRITICAL(mux) == mux = "unlocked"

LockUnchanged == UNCHANGED <<modeVars, consumerVars, clockVars, producerVars, markHist,
                             cycleHist, seqVars, frameVars, lifeVars, accessVars, decVars,
                             tileVars, healVars, fallbackVars, cacheVars, cmpVars,
                             write_dirty_tiles, dirty_tiles, dirty_tile_count, frame_ready,
                             notify_value, use_write_dirty_tracking, frame_buffer_size>>

\* set_palette or initDefaultPalette: portENTER_CRITICAL(&frame_spinlock)
LockEnterWrite(target) ==
    /\ pal_pc = "idle"
    /\ portENTER_CRITICAL(frame_spinlock)
    /\ frame_spinlock' = "emulator"
    /\ pal_pc' = "write"
    /\ pal_target' = target
    /\ pal_before' = palette_rgb565
    /\ pal_i' = 1
    /\ cp_whole' = IF cp_pc \in {"copy", "exit"} THEN cp_whole \cup {target} ELSE cp_whole
    /\ UNCHANGED <<palette_rgb565, force_full_update, cp_pc, cp_site, cp_i, cp_local>>
    /\ LockUnchanged

\* set_palette(pal, num)
SetPaletteEnter(user, num) ==
    LockEnterWrite(SetPaletteEntries(palette_rgb565, user, num))

\* initDefaultPalette(depth)
DefaultPaletteEnter(d) ==
    LockEnterWrite(initDefaultPalette(palette_rgb565, d))

\* one palette_rgb565[i] = ... of the call
WriteEntry ==
    /\ pal_pc = "write"
    /\ palette_rgb565' = [palette_rgb565 EXCEPT ![PalOrder[pal_i]] = pal_target[PalOrder[pal_i]]]
    /\ IF pal_i = Len(PalOrder)
       THEN pal_pc' = "exit" /\ pal_i' = 1
       ELSE pal_pc' = "write" /\ pal_i' = pal_i + 1
    /\ UNCHANGED <<frame_spinlock, force_full_update, pal_target, pal_before, cp_pc, cp_site,
                   cp_i, cp_local, cp_whole>>
    /\ LockUnchanged

\* portEXIT_CRITICAL(&frame_spinlock) of the writer
LockExitWrite ==
    /\ pal_pc = "exit"
    /\ frame_spinlock' = "unlocked"
    /\ pal_pc' = "force"
    /\ pal_target' = ZeroPalette
    /\ pal_before' = ZeroPalette
    /\ UNCHANGED <<palette_rgb565, force_full_update, pal_i, cp_pc, cp_site, cp_i, cp_local,
                   cp_whole>>
    /\ LockUnchanged

\* force_full_update = true, and the call returns
WriteForce ==
    /\ pal_pc = "force"
    /\ force_full_update' = TRUE
    /\ pal_pc' = "idle"
    /\ UNCHANGED <<palette_rgb565, frame_spinlock, pal_target, pal_before, pal_i, cp_pc,
                   cp_site, cp_i, cp_local, cp_whole>>
    /\ LockUnchanged

\* the render task: portENTER_CRITICAL(&frame_spinlock) before memcpy
LockEnterCopy(site) ==
    /\ cp_pc = "idle"
    /\ portENTER_CRITICAL(frame_spinlock)
    /\ frame_spinlock' = "task"
    /\ cp_pc' = "copy"
    /\ cp_site' = site
    /\ cp_i' = 1
    /\ cp_whole' = IF pal_pc \in {"write", "exit"} THEN {pal_before, pal_target}
                   ELSE {palette_rgb565}
    /\ UNCHANGED <<palette_rgb565, force_full_update, pal_pc, pal_target, pal_before, pal_i,
                   cp_local>>
    /\ LockUnchanged

\* memcpy(local_palette, palette_rgb565, 256 * sizeof(uint16)), one entry
CopyEntry ==
    /\ cp_pc = "copy"
    /\ cp_local' = [cp_local EXCEPT ![PalOrder[cp_i]] = palette_rgb565[PalOrder[cp_i]]]
    /\ IF cp_i = Len(PalOrder)
       THEN cp_pc' = "exit" /\ cp_i' = 1
       ELSE cp_pc' = "copy" /\ cp_i' = cp_i + 1
    /\ UNCHANGED <<palette_rgb565, force_full_update, frame_spinlock, pal_pc, pal_target,
                   pal_before, pal_i, cp_site, cp_whole>>
    /\ LockUnchanged

\* portEXIT_CRITICAL(&frame_spinlock) of the render task
LockExitCopy ==
    /\ cp_pc = "exit"
    /\ frame_spinlock' = "unlocked"
    /\ cp_pc' = "use"
    /\ UNCHANGED <<palette_rgb565, force_full_update, pal_pc, pal_target, pal_before, pal_i,
                   cp_site, cp_i, cp_local, cp_whole>>
    /\ LockUnchanged

\* the rendering that reads local_palette, to its end
CopyUse ==
    /\ cp_pc = "use"
    /\ cp_pc' = "idle"
    /\ cp_site' = "none"
    /\ cp_whole' = {}
    /\ UNCHANGED <<palette_rgb565, force_full_update, frame_spinlock, pal_pc, pal_target,
                   pal_before, pal_i, cp_i, cp_local>>
    /\ LockUnchanged

NextLock ==
    \/ \E u \in UserPalettes, n \in LockNums : SetPaletteEnter(u, n)
    \/ \E d \in SchedDepths : DefaultPaletteEnter(d)
    \/ WriteEntry
    \/ LockExitWrite
    \/ WriteForce
    \/ \E site \in CopySites : LockEnterCopy(site)
    \/ CopyEntry
    \/ LockExitCopy
    \/ CopyUse

SpecLock == Init /\ [][NextLock]_vars

(***************************************************************************)
(* Runs of the pixel decoders: after mode switches the emulator fills the  *)
(* framebuffer with an image, and each of decodePackedRow, getPackedPixel  *)
(* and snapshotTile is applied to it                                       *)
(***************************************************************************)
\* the images: byte o of mac_frame_buffer is (mul * o + add) % 256
DecodeImages == {[mul |-> 1, add |-> 0], [mul |-> 37, add |-> 129], [mul |-> 255, add |-> 85]}

\* the rows decoded and the tile columns snapshotted
DecodeRows == {0, 45, MAC_SCREEN_HEIGHT - 1}
DecodeTileCols == {0, 7, TILES_X - 1}

\* mac_frame_buffer filled with image img
FrameBytes(img) ==
    [o \in 0..(MAC_SCREEN_WIDTH * MAC_SCREEN_HEIGHT - 1) |-> (img.mul * o + img.add) % 256]

DecodeUnchanged == UNCHANGED <<sharedVars, modeVars, consumerVars, clockVars, producerVars,
                               markHist, cycleHist, seqVars, frameVars, lifeVars, accessVars,
                               lockVars, tileVars, healVars, fallbackVars, cacheVars, cmpVars>>

\* the emulator has drawn image img; row y and tile column tx are chosen
DecodeBegin(img, y, tx) ==
    /\ dec_img.mul = 0
    /\ dec_img' = img
    /\ dec_y' = y
    /\ dec_tx' = tx
    /\ UNCHANGED <<dec_row, dec_points, dec_snap, dec_done, dec_tile_out, dec_frame_out>>
    /\ DecodeUnchanged

\* decodePackedRow(src_row, decoded_row, MAC_SCREEN_WIDTH, depth) as
\* renderFrameToDSI calls it, src_row = src_buffer + y * bpr
DecodeRow ==
    /\ dec_img.mul # 0
    /\ "row" \notin dec_done
    /\ dec_row' = decodePackedRow(FrameBytes(dec_img), dec_y * current_bytes_per_row,
                                  MAC_SCREEN_WIDTH, current_depth)
    /\ dec_done' = dec_done \cup {"row"}
    /\ UNCHANGED <<dec_img, dec_y, dec_tx, dec_points, dec_snap, dec_tile_out, dec_frame_out>>
    /\ DecodeUnchanged

\* getPackedPixel(fb, x, y, bpr, depth) for every column x of the row
DecodePoints ==
    /\ dec_img.mul # 0
    /\ "points" \notin dec_done
    /\ dec_points' = [x \in 0..(MAC_SCREEN_WIDTH - 1) |->
                        getPackedPixel(FrameBytes(dec_img), x, dec_y,
                                       current_bytes_per_row, current_depth)]
    /\ dec_done' = dec_done \cup {"points"}
    /\ UNCHANGED <<dec_img, dec_y, dec_tx, dec_row, dec_snap, dec_tile_out, dec_frame_out>>
    /\ DecodeUnchanged

\* snapshotTile(src_buffer, tx, ty, tile_snapshot) of the tile of row dec_y
DecodeTile ==
    /\ dec_img.mul # 0
    /\ "tile" \notin dec_done
    /\ dec_snap' = snapshotTile(FrameBytes(dec_img), dec_tx, dec_y \div TILE_HEIGHT,
                                current_depth, current_bytes_per_row)
    /\ dec_done' = dec_done \cup {"tile"}
    /\ UNCHANGED <<dec_img, dec_y, dec_tx, dec_row, dec_points, dec_tile_out, dec_frame_out>>
    /\ DecodeUnchanged

\* a mode switch before the image is drawn
DecodeSwitch(d) ==
    /\ dec_img.mul = 0
    /\ SeqSwitch(d)

\* local_palette with its 256 entries: the default 8-bit palette
DecodePalette == [i \in 0..255 |-> Rgb565Of(mac256(i))]

\* renderTileFromSnapshot(tile_snapshot, local_palette, tile_buffer) after
\* the snapshot of the tile
DecodeRenderTile ==
    /\ "tile" \in dec_done
    /\ "render_tile" \notin dec_done
    /\ dec_tile_out' = renderTileFromSnapshot(dec_snap, DecodePalette, WideLimit(TILE_WIDTH))
    /\ dec_done' = dec_done \cup {"render_tile"}
    /\ UNCHANGED <<dec_img, dec_y, dec_tx, dec_row, dec_points, dec_snap, dec_frame_out>>
    /\ DecodeUnchanged

\* renderFrameToDSI(mac_frame_buffer), row dec_y
DecodeRenderRow ==
    /\ dec_img.mul # 0
    /\ "render_row" \notin dec_done
    /\ dec_frame_out' = renderFrameToDSI(FrameBytes(dec_img), dec_y, DecodePalette,
                                         current_depth, current_bytes_per_row,
                                         WideLimit(MAC_SCREEN_WIDTH))
    /\ dec_done' = dec_done \cup {"render_row"}
    /\ UNCHANGED <<dec_img, dec_y, dec_tx, dec_row, dec_points, dec_snap, dec_tile_out>>
    /\ DecodeUnchanged

\* the tile is snapshotted and rendered, the row is rendered
NextRender ==
    \/ \E d \in Depths : DecodeSwitch(d)
    \/ \E img \in DecodeImages, y \in DecodeRows, tx \in DecodeTileCols : DecodeBegin(img, y, tx)
    \/ DecodeTile
    \/ DecodeRenderTile
    \/ DecodeRenderRow

SpecRender == Init /\ [][NextRender]_vars

NextDecode ==
    \/ \E d \in Depths : DecodeSwitch(d)
    \/ \E img \in DecodeImages, y \in DecodeRows, tx \in DecodeTileCols : DecodeBegin(img, y, tx)
    \/ DecodeRow
    \/ DecodePoints
    \/ DecodeTile

SpecDecode == Init /\ [][NextDecode]_vars

(***************************************************************************)
(* The comparison fallback: detectDirtyTiles(current, previous)            *)
(***************************************************************************)
\* byte o of a comparison buffer
ByteAt(buf, o) == IF o \in buf THEN 129 ELSE 128

\* ((uint32 *)curr)[w] with curr + 4 * w = buf + o
WordAt(buf, o) == Read32([a \in o..(o + 3) |-> ByteAt(buf, a)], o)

\* mutant: the bytes after the last whole word of a tile row are not compared
TileDiffers_WordsOnly(current, previous, tx, ty, bpr, ppb) ==
    LET bytes_per_tile_row == IF (TILE_WIDTH \div ppb) < 4 THEN 4 ELSE (TILE_WIDTH \div ppb)
        tile_byte_x == (tx * TILE_WIDTH) \div ppb
        words == bytes_per_tile_row \div 4
    IN \E row \in 0..(TILE_HEIGHT - 1) :
         LET row_offset == (ty * TILE_HEIGHT + row) * bpr + tile_byte_x
         IN \E w \in 0..(words - 1) :
              WordAt(current, row_offset + 4 * w) # WordAt(previous, row_offset + 4 * w)

\* the body of the tile loops of detectDirtyTiles: is_dirty after the row
\* loop.  The loops stop at the first difference, which is the first
\* witness of the quantifiers
TileDiffers(current, previous, tx, ty, bpr, ppb) ==
    LET bytes_per_tile_row == IF (TILE_WIDTH \div ppb) < 4 THEN 4 ELSE (TILE_WIDTH \div ppb)
        tile_byte_x == (tx * TILE_WIDTH) \div ppb
        words == bytes_per_tile_row \div 4
        remaining == bytes_per_tile_row % 4
    IN \E row \in 0..(TILE_HEIGHT - 1) :
         LET row_offset == (ty * TILE_HEIGHT + row) * bpr + tile_byte_x
         IN \/ \E w \in 0..(words - 1) :
                 WordAt(current, row_offset + 4 * w) # WordAt(previous, row_offset + 4 * w)
            \/ \E b \in (words * 4)..(words * 4 + remaining - 1) :
                 ByteAt(current, row_offset + b) # ByteAt(previous, row_offset + b)

\* the bytes that are 0x81 in the buffers compared, as <<row, byte column>>
CmpCells == {{}, {<<0, 4>>, <<39, 5>>}, {<<40, 9>>, <<45, 10>>, <<79, 19>>},
             {<<80, 39>>, <<119, 40>>, <<359, 79>>}, {<<200, 3>>, <<200, 20>>}}

\* the pairs of buffers compared: one of them untouched, or both alike
CmpPairs == {<<c, {}>> : c \in CmpCells} \cup {<<{}, {<<200, 3>>, <<200, 20>>}>>,
                                               <<{<<200, 3>>, <<200, 20>>}, {<<200, 3>>}>>,
                                               <<{<<0, 4>>, <<39, 5>>}, {<<0, 4>>, <<39, 5>>}>>}

CmpUnchanged == UNCHANGED <<write_dirty_tiles, dirty_tile_count, force_full_update,
                            use_write_dirty_tracking, frame_ready, frame_buffer_size,
                            palette_rgb565, notify_value, modeVars, consumerVars, clockVars,
                            producerVars, markHist, cycleHist, seqVars, frameVars, lifeVars,
                            accessVars, decVars, lockVars, tileVars, healVars, fallbackVars, cacheVars>>

\* switch_to_current_mode before the comparison
CmpSwitch(d) ==
    /\ cmp_pc = "idle"
    /\ SeqSwitch(d)

\* detectDirtyTiles is entered: memset(dirty_tiles, 0, ...), count = 0, the
\* copies of current_bytes_per_row and current_pixels_per_byte
DetectBegin(cur, prev) ==
    /\ cmp_pc = "idle"
    /\ cmp_bpr' = current_bytes_per_row
    /\ cmp_ppb' = current_pixels_per_byte
    /\ cmp_cur' = {c[1] * current_bytes_per_row + c[2] : c \in cur}
    /\ cmp_prev' = {c[1] * current_bytes_per_row + c[2] : c \in prev}
    /\ dirty_tiles' = ZeroBitmap
    /\ cmp_count' = 0
    /\ cmp_tile' = 0
    /\ cmp_pc' = "tiles"
    /\ CmpUnchanged

\* one pass of the body of the tile loops
DetectTile ==
    /\ cmp_pc = "tiles"
    /\ cmp_tile < TOTAL_TILES
    /\ LET is_dirty == TileDiffers(cmp_cur, cmp_prev, cmp_tile % TILES_X,
                                   cmp_tile \div TILES_X, cmp_bpr, cmp_ppb)
       IN /\ dirty_tiles' = IF is_dirty
                            THEN [dirty_tiles EXCEPT ![cmp_tile \div 32] = @ \cup {cmp_tile % 32}]
                            ELSE dirty_tiles
          /\ cmp_count' = IF is_dirty THEN cmp_count + 1 ELSE cmp_count
    /\ cmp_tile' = cmp_tile + 1
    /\ UNCHANGED <<cmp_pc, cmp_cur, cmp_prev, cmp_bpr, cmp_ppb>>
    /\ CmpUnchanged

\* return count
DetectReturn ==
    /\ cmp_pc = "tiles"
    /\ cmp_tile = TOTAL_TILES
    /\ cmp_pc' = "done"
    /\ UNCHANGED <<dirty_tiles, cmp_cur, cmp_prev, cmp_bpr, cmp_ppb, cmp_tile, cmp_count>>
    /\ CmpUnchanged

NextCompare ==
    \/ \E d \in Depths : CmpSwitch(d)
    \/ \E p \in CmpPairs : DetectBegin(p[1], p[2])
    \/ DetectTile
    \/ DetectReturn

SpecCompare == Init /\ [][NextCompare]_vars

(***************************************************************************)
(* What the claims call the pixels and the tile of a byte offset           *)
(***************************************************************************)
RowOfByte(o) == o \div current_bytes_per_row

PixelsOfByte(o) ==
    LET ppb == 8 \div DepthBits(current_depth)
    IN {(o % current_bytes_per_row) * ppb + j : j \in 0..(ppb - 1)}

TileOfPixel(x, y) == (y \div TILE_HEIGHT) * TILES_X + (x \div TILE_WIDTH)

TilesOfByte(o) == {TileOfPixel(x, RowOfByte(o)) : x \in PixelsOfByte(o)}

VisibleByte(o) ==
    /\ use_write_dirty_tracking
    /\ o < frame_buffer_size
    /\ RowOfByte(o) < MAC_SCREEN_HEIGHT

\* the tiles holding a pixel of a byte p of [o, o + n) whose row is on the
\* screen, found row by row
TilesOfRange(o, n) ==
    LET bpr == current_bytes_per_row
        ppb == 8 \div DepthBits(current_depth)
        first_row == o \div bpr
        last_row == (o + n - 1) \div bpr
        rows == first_row..Min(last_row, MAC_SCREEN_HEIGHT - 1)
        first_col(r) == IF r = first_row THEN o % bpr ELSE 0
        last_col(r) == IF r = last_row THEN (o + n - 1) % bpr ELSE bpr - 1
    IN UNION {{(r \div TILE_HEIGHT) * TILES_X + tx :
                 tx \in ((first_col(r) * ppb) \div TILE_WIDTH)
                          ..(((last_col(r) + 1) * ppb - 1) \div TILE_WIDTH)} :
              r \in rows}

(***************************************************************************)
(* C1: after VideoMarkDirtyOffset(o), o a byte of a visible row, the tile  *)
(* covering the pixels of byte o is dirty.                                 *)
(***************************************************************************)
\* C1 as stated: isTileDirty, which reads the render bitmap dirty_tiles,
\* holds as soon as the call has returned.
C1_IsTileDirtyPostCall ==
    (seq_op = "markOffset" /\ VisibleByte(seq_off))
        => \A t \in TilesOfByte(seq_off) : isTileDirty(t)

\* C1 amended: after VideoMarkDirtyOffset(o) the bit of every tile covering
\* the pixels of byte o is set in the accumulator write_dirty_tiles, and
\* isTileDirty holds for it once the next drain has run.
C1_MarkSetsAccumulator ==
    /\ (seq_op = "markOffset" /\ VisibleByte(seq_off))
         => TilesOfByte(seq_off) \subseteq BitmapTiles(write_dirty_tiles)
    /\ (seq_op = "drain" /\ seq_prev = "markOffset" /\ VisibleByte(seq_off))
         => \A t \in TilesOfByte(seq_off) : isTileDirty(t)

\* a mark of a byte of a packed mode has returned
C1_Witness ==
    /\ seq_op = "markOffset"
    /\ VisibleByte(seq_off)
    /\ current_depth = "VDEPTH_2BIT"
    /\ seq_off = 9
    /\ BitmapTiles(write_dirty_tiles) = {0}

(***************************************************************************)
(* C7: after a successful mark, of two drains in succession with no mark   *)
(* in between, the first returns a non-empty set and a count > 0, the      *)
(* second an empty set and count 0.                                        *)
(***************************************************************************)
C7_DrainTwice ==
    /\ (seq_op = "drain" /\ seq_phase = "drained1")
         => (dirty_tile_count > 0 /\ dirty_tiles # ZeroBitmap)
    /\ (seq_op = "drain" /\ seq_prev = "drain" /\ seq_phase = "drained2")
         => (dirty_tile_count = 0 /\ dirty_tiles = ZeroBitmap)
    /\ seq_op = "drain"
         => (dirty_tile_count = Cardinality(BitmapTiles(dirty_tiles))
             /\ write_dirty_tiles = ZeroBitmap)

\* the second of two successive drains after a successful mark
C7_Witness ==
    /\ seq_op = "drain"
    /\ seq_prev = "drain"
    /\ seq_phase = "drained2"

(***************************************************************************)
(* C2: for every interleaving of marks with a drain, each tile bit a mark  *)
(* has set is either in the render bitmap of that drain or still set in    *)
(* the accumulator when the drain finishes: no mark is lost.               *)
(* unseen: the bits marks have set that no exchange has fetched yet; got:  *)
(* those the exchanges of the cycle in progress have fetched.              *)
(***************************************************************************)
C2_NoMarkLost ==
    /\ unseen \subseteq BitmapTiles(write_dirty_tiles)
    /\ got \subseteq BitmapTiles(dirty_tiles)
    /\ pc = "collect" => \A t \in got : t \div 32 < collect_i

\* a drain has finished that fetched a tile which a mark, racing with the
\* drain, has set again behind it
C2_Witness ==
    /\ pc = "render"
    /\ collect_i = DIRTY_WORDS
    /\ \E t \in got : t \in unseen
    /\ Cardinality(got) = 2

(***************************************************************************)
(* C3: once a mark call for tile t has returned, the first consumer cycle  *)
(* that wakes afterwards and passes the rate-limit gate renders tile t,    *)
(* as a dirty tile of a partial update or as part of a full-frame render.  *)
(***************************************************************************)
\* the tiles the cycle in progress has rendered
RenderedThisCycle == IF full_log > 0 THEN AllTiles ELSE Range(tile_log)

\* C3 as stated: must holds the tiles of the mark calls that had returned
\* when the cycle woke
C3_FirstCycleRenders == pc = "end" => must \subseteq RenderedThisCycle

\* C3 amended: a tile whose bit a mark has set is rendered after that, no
\* later than the end of the first cycle that wakes afterwards and passes
\* the gate; the cycle that renders it may be the one already in progress
\* when the bit was set, and then the first cycle to wake afterwards
\* renders nothing for it.  owe holds the tiles set before the cycle woke
\* and not rendered since.
C3_RenderedByEndOfNextCycle == pc = "end" => owe = {}

\* a cycle that woke after a mark had returned ends without rendering:
\* the cycle before it had fetched and rendered the tile
C3_Witness ==
    /\ pc = "end"
    /\ cycle_kind = "skip"
    /\ must # {}
    /\ owe = {}

(***************************************************************************)
(* C5: a cycle with force_full clear whose drain returns k tiles,          *)
(* 0 < k <= threshold, snapshots, renders and pushes exactly those k       *)
(* tiles, each once, and no other tile.                                    *)
(***************************************************************************)
C5_PartialExact ==
    /\ (pc = "tiles" \/ (pc = "end" /\ cycle_kind = "partial"))
         => /\ ~do_full_update
            /\ dirty_tile_count > 0
            /\ dirty_tile_count <= dirty_threshold
            /\ dirty_tile_count = Cardinality(BitmapTiles(dirty_tiles))
            /\ full_log = 0
            /\ Range(tile_log) \subseteq BitmapTiles(dirty_tiles)
            /\ \A i, j \in DOMAIN tile_log : i < j => tile_log[i] < tile_log[j]
            /\ push_log = [i \in DOMAIN tile_log |-> TileWindow(tile_log[i])]
    /\ (pc = "end" /\ ~do_full_update /\ dirty_tile_count > 0)
         => /\ cycle_kind = "partial"
            /\ Range(tile_log) = BitmapTiles(dirty_tiles)
            /\ Len(tile_log) = dirty_tile_count

\* a partial update of two tiles has ended
C5_Witness ==
    /\ pc = "end"
    /\ cycle_kind = "partial"
    /\ dirty_tile_count = 2
    /\ Len(push_log) = 2

(***************************************************************************)
(* C8: a wake before the minimum inter-frame interval (67 ticks) has       *)
(* elapsed since the last completed render is a no-op cycle: no drain, no  *)
(* render, no push.                                                        *)
(***************************************************************************)
\* the consumer is past the gate of the cycle in progress
PastGate == pc \in {"palette", "decide", "collect", "render", "push", "clear", "tiles", "end"}

\* C8 as stated: woke_early records that fewer than min_frame_ticks ticks
\* had passed since the last completed render when the cycle woke
C8_EarlyWakeNoOp == woke_early => ~PastGate

\* C8 amended: a wake that a signal caused (a notification, or frame_ready
\* set) fewer than min_frame_ticks ticks after the tick count read by the
\* last cycle that passed the gate is a no-op: it goes back to waiting with
\* no drain, no render and no push.  The interval starts when that cycle
\* read the tick count, not when its render completed.
C8_GateFromCycleStart ==
    /\ PastGate => ~(should_render /\ elapsed < min_frame_ticks)
    /\ (pc = "wait" /\ should_render /\ elapsed < min_frame_ticks)
         => (push_log = <<>> /\ tile_log = <<>> /\ full_log = 0 /\ got = {})

\* a signalled wake was rate-limited and went back to waiting
C8_Witness ==
    /\ pc = "wait"
    /\ notification > 0
    /\ should_render
    /\ elapsed < min_frame_ticks
    /\ clk_wait = 0

(***************************************************************************)
(* C4: after any palette mutation (set_palette) the very next scheduler    *)
(* cycle performs a full render, whatever the dirty tile count, for every  *)
(* interleaving of the set_palette call with the consumer loop.            *)
(***************************************************************************)
\* C4, read in the code's favour: cyc_pal_owed says that a set_palette call
\* had returned when the cycle woke and that no full-frame render had begun
\* since its return; such a cycle ends with a full-frame render done, or at
\* least with the frame on display rendered with the palette as it is now.
C4_NextCycleFull ==
    (pc = "end" /\ cyc_pal_owed) => (full_log > 0 \/ frame_palette = palette_rgb565)

(***************************************************************************)
(* C10: with write-time tracking, in every cycle (tile path and full-frame *)
(* path, at every depth) pixel conversion reads a snapshot copy, never the *)
(* live framebuffer directly, which is read one tile at a time.            *)
(***************************************************************************)
\* C10 as stated: the palette-lookup loop never reads mac_frame_buffer
C10_AlwaysFromSnapshot == render_src # "mac_frame_buffer"

\* C10 amended: in the tile path each dirty tile is copied from the live
\* framebuffer into tile_snapshot (one tile at a time) and converted from
\* that copy; the full-frame path reads the whole live framebuffer row by
\* row with no snapshot: in 8-bit mode the conversion reads the live row
\* itself, in the packed modes a one-row decode buffer.
C10_SnapshotOnlyInTilePath ==
    /\ ((pc = "tiles" /\ tile_log # <<>>) \/ (pc = "end" /\ cycle_kind = "partial"))
         => /\ render_src = "tile_snapshot"
            /\ live_read = {tile_log[Len(tile_log)]}
    /\ (pc \in {"push", "clear"} \/ (pc = "end" /\ cycle_kind = "full"))
         => /\ live_read = AllTiles
            /\ render_src = IF render_depth = "VDEPTH_8BIT" THEN "mac_frame_buffer"
                            ELSE "decoded_row"

\* a tile of a packed mode has been rendered from its snapshot
C10_Witness ==
    /\ pc = "tiles"
    /\ tile_log # <<>>
    /\ render_depth = "VDEPTH_1BIT"
    /\ render_src = "tile_snapshot"

(***************************************************************************)
(* C6: with 144 tiles and the 80% threshold, a cycle whose drain returns   *)
(* 116 or more tiles sets do_full_update and does one full-frame render    *)
(* instead of tile renders; a cycle whose drain returns 115 tiles leaves   *)
(* do_full_update false and takes the tile path.                           *)
(***************************************************************************)
\* the drain of the cycle in progress has finished
Drained == collect_i = DIRTY_WORDS /\ pc \in {"render", "push", "clear", "tiles", "end"}

C6_ThresholdDecision ==
    /\ TOTAL_TILES = 144
    /\ Drained => (do_full_update <=> dirty_tile_count >= 116)
    /\ (Drained /\ pc = "end" /\ dirty_tile_count >= 116)
         => /\ cycle_kind = "full"
            /\ full_log = 1
            /\ tile_log = <<>>
            /\ push_log = <<FullWindow>>
    /\ (Drained /\ pc = "end" /\ dirty_tile_count = 115)
         => /\ cycle_kind = "partial"
            /\ full_log = 0
            /\ Len(tile_log) = 115

\* a cycle whose drain returned 116 tiles has done its full-frame render
C6_Witness ==
    /\ Drained
    /\ pc = "end"
    /\ dirty_tile_count = 116
    /\ full_log = 1

\* a cycle whose drain returned 115 tiles has rendered them as tiles
C6_Reached115 ==
    /\ Drained
    /\ pc = "end"
    /\ dirty_tile_count = 115
    /\ cycle_kind = "partial"

(***************************************************************************)
(* C9: while the render task runs, even if VideoSignalFrameReady is never  *)
(* called, the consumer wakes by timeout and reaches the drain step        *)
(* infinitely often, so every marked tile is eventually drained and        *)
(* rendered.                                                               *)
(***************************************************************************)
\* C9 as stated: the drain step is reached infinitely often
C9_DrainInfinitelyOften == []<>(pc = "collect")

\* tile t has been marked and not rendered since
Unrendered(t) == t \in (fresh \cup owe)

\* C9 amended: with no signal ever, the consumer wakes by timeout and passes
\* the gate infinitely often, and every marked tile is eventually rendered,
\* as a dirty tile after a drain or by a full-frame render.  A cycle that
\* finds force_full_update set skips the drain: the drain step is reached
\* infinitely often unless force_full_update is set again and again forever.
C9_TimeoutKeepsRendering ==
    /\ []<>(pc = "palette" /\ ~should_render)
    /\ []<>(force_full_update \/ pc = "collect")
    /\ \A t \in 0..1 : Unrendered(t) ~> ~Unrendered(t)

\* a cycle woken by timeout alone, with a marked tile waiting, is draining
C9_Witness ==
    /\ pc = "collect"
    /\ ~should_render
    /\ notification = 0
    /\ owe # {}

(***************************************************************************)
(* C11: after VideoExit has cleared video_task_running, the render task    *)
(* sees the flag and leaves its loop before any buffer is freed: in no     *)
(* interleaving does it read or write a buffer VideoExit has freed.        *)
(***************************************************************************)
\* C11 as stated: uaf records that a step of the render task read or wrote
\* a block that was no longer in the heap
C11_NoUseAfterFree == ~uaf

(***************************************************************************)
(* C12: after switch_to_current_mode to a mode of depth d and bytes per    *)
(* row b has returned, the layout cache holds depth d, bytes per row b,    *)
(* pixels per byte 8 / bits(d), bit shift 8 - bits(d) and pixel mask       *)
(* 2^bits(d) - 1, and force_full_update is true.                           *)
(***************************************************************************)
C12_SwitchSetsCache ==
    seq_op = "switch"
        => /\ current_depth = seq_depth
           /\ current_bytes_per_row = TrivialBytesPerRow(MAC_SCREEN_WIDTH, seq_depth)
           /\ current_pixels_per_byte = 8 \div DepthBits(seq_depth)
           /\ current_bit_shift = 8 - DepthBits(seq_depth)
           /\ current_pixel_mask = (2 ^ DepthBits(seq_depth)) - 1
           /\ force_full_update

\* the first call of a run, a switch from the initial 8-bit mode to 4-bit,
\* has returned: 320 bytes per row, two pixels per byte
C12_Witness ==
    /\ seq_op = "switch"
    /\ seq_prev = "init"
    /\ seq_depth = "VDEPTH_4BIT"
    /\ current_bytes_per_row = 320
    /\ current_pixels_per_byte = 2
    /\ force_full_update

(***************************************************************************)
(* C13: at every depth, for every source row and every pixel column x, the *)
(* three decoders agree: decodePackedRow(row)[x] = getPackedPixel(row, x)  *)
(* = the index snapshotTile stores for pixel x, each equal to the d-bit    *)
(* field of byte x / (8/d) taken most significant field first.             *)
(***************************************************************************)
\* the d-bit field of pixel column x of row dec_y of the image, the
\* leftmost pixel of a byte in its highest bits
FieldOfPixel(x) ==
    LET bits == DepthBits(current_depth)
        ppb == 8 \div bits
        byte == FrameBytes(dec_img)[dec_y * current_bytes_per_row + (x \div ppb)]
    IN (byte \div (2 ^ (8 - bits * ((x % ppb) + 1)))) % (2 ^ bits)

C13_DecodersAgree ==
    /\ "row" \in dec_done
         => \A x \in 0..(MAC_SCREEN_WIDTH - 1) : dec_row[x] = FieldOfPixel(x)
    /\ "points" \in dec_done
         => \A x \in 0..(MAC_SCREEN_WIDTH - 1) : dec_points[x] = FieldOfPixel(x)
    /\ "tile" \in dec_done
         => \A x \in 0..(TILE_WIDTH - 1) :
               dec_snap[(dec_y % TILE_HEIGHT) * TILE_WIDTH + x]
                 = FieldOfPixel(dec_tx * TILE_WIDTH + x)
    /\ dec_done = {"row", "points", "tile"}
         => /\ dec_row = dec_points
            /\ \A x \in 0..(TILE_WIDTH - 1) :
                  dec_snap[(dec_y % TILE_HEIGHT) * TILE_WIDTH + x]
                    = dec_row[dec_tx * TILE_WIDTH + x]

\* the three decoders have run on a row of a 2-bit image whose pixels differ
C13_Witness ==
    /\ dec_done = {"row", "points", "tile"}
    /\ current_depth = "VDEPTH_2BIT"
    /\ dec_y = 45
    /\ dec_tx = 7
    /\ \E x \in 0..3 : dec_row[x] # dec_row[x + 1]

(***************************************************************************)
(* C14: VideoMarkDirtyOffset(o) sets in the accumulator exactly the bits   *)
(* of the tiles whose pixel extent intersects the pixel range of byte o,   *)
(* and no other bit; a following drain returns exactly those tiles and     *)
(* their count.                                                            *)
(***************************************************************************)
\* the first mark of a run finds the accumulator empty
C14_MarkSetsExactly ==
    /\ (seq_op = "markOffset" /\ seq_marks = 1 /\ VisibleByte(seq_off))
         => BitmapTiles(write_dirty_tiles) = TilesOfByte(seq_off)
    /\ (seq_op = "drain" /\ seq_prev = "markOffset" /\ seq_marks = 1 /\ VisibleByte(seq_off))
         => /\ BitmapTiles(dirty_tiles) = TilesOfByte(seq_off)
            /\ dirty_tile_count = Cardinality(TilesOfByte(seq_off))
            /\ write_dirty_tiles = ZeroBitmap

\* 8-bit depth, offset 45*640+50: the drain after the mark has returned
\* {17}, count 1
C14_Witness ==
    /\ seq_op = "drain"
    /\ seq_prev = "markOffset"
    /\ current_depth = "VDEPTH_8BIT"
    /\ seq_off = 45 * 640 + 50
    /\ BitmapTiles(dirty_tiles) = {17}
    /\ dirty_tile_count = 1

\* 2-bit depth, row 0, byte column 9: the mark has set tile 0 only
C14_Reached2Bit ==
    /\ seq_op = "markOffset"
    /\ current_depth = "VDEPTH_2BIT"
    /\ current_bytes_per_row = 160
    /\ seq_off = 9
    /\ BitmapTiles(write_dirty_tiles) = {0}

(***************************************************************************)
(* C15: after VideoMarkDirtyRange(offset, size), size >= 1, for every byte *)
(* p of [offset, offset + size) whose row is below 360 the accumulator bit *)
(* of the tile holding the pixels of p is set: in the single-row case of   *)
(* at most 4 bytes, in the single-row case of more bytes and in the        *)
(* multi-row case.                                                         *)
(***************************************************************************)
C15_RangeNeverUnderMarks ==
    (seq_op = "markRange" /\ seq_size >= 1 /\ seq_off < frame_buffer_size)
        => TilesOfRange(seq_off, Min(seq_size, frame_buffer_size - seq_off))
             \subseteq BitmapTiles(write_dirty_tiles)

\* a 4-byte range of one row of a packed mode, its bytes in two tiles
C15_Witness ==
    /\ seq_op = "markRange"
    /\ current_depth = "VDEPTH_2BIT"
    /\ seq_off = 45 * MAC_SCREEN_WIDTH + 38
    /\ seq_size = 4
    /\ Cardinality(TilesOfRange(seq_off, seq_size)) = 2
    /\ BitmapTiles(write_dirty_tiles) = TilesOfRange(seq_off, seq_size)

\* a range of more than 4 bytes of one row
C15_ReachedSingleRow ==
    /\ seq_op = "markRange"
    /\ seq_size > 4
    /\ seq_off \div current_bytes_per_row = (seq_off + seq_size - 1) \div current_bytes_per_row
    /\ BitmapTiles(write_dirty_tiles) # {}

\* a range of several rows, over-marked
C15_ReachedMultiRow ==
    /\ seq_op = "markRange"
    /\ seq_size = 4
    /\ seq_off \div current_bytes_per_row < (seq_off + seq_size - 1) \div current_bytes_per_row
    /\ TilesOfRange(seq_off, seq_size) # BitmapTiles(write_dirty_tiles)
    /\ TilesOfRange(seq_off, seq_size) # {}

(***************************************************************************)
(* C16: VideoMarkDirtyOffset and VideoMarkDirtyRange called with an offset *)
(* >= frame_buffer_size, with an offset whose row is >= 360, or while      *)
(* write-time tracking is disabled, leave the accumulator unchanged.       *)
(***************************************************************************)
\* the first mark of a run finds the accumulator empty; nothing in the
\* program clears use_write_dirty_tracking, so the disabled case is that of
\* the call just made, repeated with the flag false
C16_OutOfBoundsNoOp ==
    /\ (seq_op \in {"markOffset", "markRange"} /\ seq_marks = 1
        /\ (seq_off >= frame_buffer_size \/ RowOfByte(seq_off) >= MAC_SCREEN_HEIGHT))
         => write_dirty_tiles = ZeroBitmap
    /\ seq_op = "markOffset"
         => VideoMarkDirtyOffset(write_dirty_tiles, seq_off, FALSE, frame_buffer_size,
                                 current_bytes_per_row, current_pixels_per_byte)
              = write_dirty_tiles
    /\ seq_op = "markRange"
         => VideoMarkDirtyRange(write_dirty_tiles, seq_off, seq_size, FALSE, frame_buffer_size,
                                current_bytes_per_row, current_pixels_per_byte)
              = write_dirty_tiles

\* a range mark inside the framebuffer and below the screen of a packed mode
\* has returned
C16_Witness ==
    /\ seq_op = "markRange"
    /\ seq_marks = 1
    /\ seq_off < frame_buffer_size
    /\ RowOfByte(seq_off) >= MAC_SCREEN_HEIGHT
    /\ seq_size > 4
    /\ write_dirty_tiles = ZeroBitmap

\* an offset mark past the end of the framebuffer has returned
C16_ReachedPastEnd ==
    /\ seq_op = "markOffset"
    /\ seq_off >= frame_buffer_size
    /\ write_dirty_tiles = ZeroBitmap

(***************************************************************************)
(* C17: if the allocation of any buffer (mac_frame_buffer, snapshot_buffer,*)
(* compare_buffer, dsi_framebuffer) fails in VideoInit, VideoInit returns  *)
(* false and the render task is never created.                             *)
(***************************************************************************)
C17_AllocFailureIsFatal ==
    (init_result # "none"
     /\ ~(init_alloc.mac /\ init_alloc.snap /\ init_alloc.cmp /\ init_alloc.dsi))
        => /\ init_result = "false"
           /\ pc = "notask"
           /\ video_task_handle = "NULL"
           /\ ~video_task_running

\* VideoInit has returned after its last allocation, the display buffer,
\* failed
C17_Witness ==
    /\ init_result = "false"
    /\ init_alloc.mac /\ init_alloc.snap /\ init_alloc.cmp /\ ~init_alloc.dsi
    /\ vpc = "failed"
    /\ pc = "notask"

(***************************************************************************)
(* C18: a null dsi_framebuffer at push time and a null source buffer at    *)
(* render time are ignored on every path: a cycle of the render task,      *)
(* full-frame or tile path, that finds one of them null dereferences       *)
(* neither and keeps running.                                              *)
(***************************************************************************)
\* C18 as stated: nullderef records that a step of the render task read
\* through a null pointer
C18_NullIgnored == ~nullderef /\ pc # "crashed"

(***************************************************************************)
(* C19: the producer never blocks on the compositor: in every reachable   *)
(* state of the render task (waiting, draining, rendering, pushing,        *)
(* rate-limited, exited) VideoMarkDirtyOffset, VideoMarkDirtyRange and     *)
(* VideoSignalFrameReady can be called, and every step of a call in        *)
(* progress can be taken at once, the loop of a mark call having a bounded *)
(* number of steps left.                                                   *)
(***************************************************************************)
C19_ProducerNeverBlocks ==
    /\ ppc = "idle"
         => /\ \A o \in SignalOffsets : ENABLED MarkOffsetCall(o)
            /\ \A r \in SchedRanges : ENABLED MarkRangeCall(r[1], r[2])
            /\ ENABLED SignalFlag
    /\ ppc = "mark" => (ENABLED MarkOr) /\ pend_i \in 1..Len(pend)
    /\ ppc = "notify" => ENABLED SignalNotify
    /\ ppc \in {"idle", "mark", "notify"}

\* the render task is in its drain, a range mark in its loop
C19_Witness ==
    /\ pc = "collect"
    /\ ppc = "mark"
    /\ Len(pend) = 2
    /\ pend_i = 2

\* the render task has left its loop, VideoSignalFrameReady is between its
\* two steps
C19_ReachedExited ==
    /\ pc = "exited"
    /\ ppc = "notify"

\* the render task is in renderFrameToDSI, a mark call in its loop
C19_ReachedRendering ==
    /\ pc = "render"
    /\ ppc = "mark"

(***************************************************************************)
(* C20: palette writes (set_palette, initDefaultPalette) and the render    *)
(* task's copy of the palette table are mutually exclusive: a writer and   *)
(* the copy are never inside the critical section together, every finished *)
(* local copy equals the table as it was entirely before or entirely after *)
(* each write concurrent with it, never a mix, and the lock is released    *)
(* before the rendering that uses the copy starts.                         *)
(***************************************************************************)
C20_PaletteCopyIsWhole ==
    /\ ~(pal_pc \in {"write", "exit"} /\ cp_pc \in {"copy", "exit"})
    /\ cp_pc \in {"copy", "exit"} => frame_spinlock = "task"
    /\ pal_pc \in {"write", "exit"} => frame_spinlock = "emulator"
    /\ cp_pc = "use" => cp_local \in cp_whole /\ frame_spinlock # "task"

\* the rendering uses a copy of the user palette while initDefaultPalette
\* has written a part of the table
C20_Witness ==
    /\ cp_pc = "use"
    /\ cp_local = SetPaletteEntries(ZeroPalette, CHOOSE u \in UserPalettes : TRUE, 256)
    /\ pal_pc = "write"
    /\ pal_i = 3
    /\ palette_rgb565 # cp_local
    /\ palette_rgb565 # pal_target

\* the render task is inside its critical section while set_palette waits
\* for the lock
C20_ReachedWaiting ==
    /\ cp_pc = "copy"
    /\ cp_i = 3
    /\ pal_pc = "idle"
    /\ \A u \in UserPalettes, n \in LockNums : ~ENABLED SetPaletteEnter(u, n)

(***************************************************************************)
(* C21: renderTileFromSnapshot and renderFrameToDSI replicate each source  *)
(* pixel as an exact 2x2 block: output pixel (X, Y) is                     *)
(* local_palette[index of source pixel (X div 2, Y div 2)] for every X, Y, *)
(* and the loop that reads 4 pixels with one 32-bit read gives the output  *)
(* of the loop that takes one pixel at a time.                             *)
(***************************************************************************)
\* the index of pixel x of row y of the image, from the bits of its byte
SourcePixel(x, y) ==
    LET bits == DepthBits(current_depth)
        ppb == 8 \div bits
        byte == FrameBytes(dec_img)[y * current_bytes_per_row + (x \div ppb)]
    IN (byte \div (2 ^ (8 - bits * ((x % ppb) + 1)))) % (2 ^ bits)

C21_ExactTwoByTwo ==
    /\ "render_tile" \in dec_done
         => /\ \A X \in 0..(TILE_WIDTH * PIXEL_SCALE - 1), Y \in 0..(TILE_HEIGHT * PIXEL_SCALE - 1) :
                  dec_tile_out[Y * TILE_WIDTH * PIXEL_SCALE + X]
                    = DecodePalette[SourcePixel(dec_tx * TILE_WIDTH + (X \div 2),
                                                (dec_y \div TILE_HEIGHT) * TILE_HEIGHT + (Y \div 2))]
            /\ dec_tile_out = renderTileFromSnapshot(dec_snap, DecodePalette, 0)
    /\ "render_row" \in dec_done
         => /\ \A X \in 0..(DISPLAY_WIDTH - 1), r \in 0..1 :
                  dec_frame_out[r * DISPLAY_WIDTH + X]
                    = DecodePalette[SourcePixel(X \div 2, dec_y)]
            /\ dec_frame_out = renderFrameToDSI(FrameBytes(dec_img), dec_y, DecodePalette,
                                                current_depth, current_bytes_per_row, 0)

\* a tile and a row of an 8-bit image whose neighbouring pixels differ have
\* been rendered
C21_Witness ==
    /\ {"render_tile", "render_row"} \subseteq dec_done
    /\ current_depth = "VDEPTH_8BIT"
    /\ dec_y = 45
    /\ dec_tile_out[0] = dec_tile_out[1]
    /\ dec_tile_out[1] # dec_tile_out[2]
    /\ dec_tile_out[0] = dec_tile_out[TILE_WIDTH * PIXEL_SCALE]
    /\ dec_frame_out[2] = dec_frame_out[DISPLAY_WIDTH + 3]
    /\ dec_frame_out[2] # dec_frame_out[4]

(***************************************************************************)
(* C22: VideoSignalFrameReady may be called zero or many times between two *)
(* wakes of the render task.  A wake takes the whole notification count,   *)
(* whatever it is, and leaves it 0, and the gate that follows clears       *)
(* frame_ready, so the signals pending at a wake are consumed by that wake *)
(* and the cycle it starts renders at most once; a wake that finds no      *)
(* notification is a wake by timeout, and goes on to a cycle.              *)
(***************************************************************************)
C22_WakeConsumesAllSignals ==
    [][/\ (pc = "wait" /\ pc' = "flag")
            => /\ notification' = notify_value
               /\ notify_value' = 0
               /\ (notify_value = 0 => clk_wait >= min_frame_ticks)
       /\ (pc = "gate" /\ pc' # "gate") => ~frame_ready'
       /\ (pc = "gate" /\ pc' = "palette" /\ ~should_render) => notification = 0
       /\ full_log + (IF tile_log = <<>> THEN 0 ELSE 1) <= 1]_vars

\* a wake has taken three notifications at once; none is left
C22_Witness ==
    /\ pc = "flag"
    /\ notification = MaxSignals
    /\ notify_value = 0
    /\ frame_ready

\* no signal: the task woke by timeout and is past the gate
C22_ReachedTimeoutCycle ==
    /\ pc = "palette"
    /\ notification = 0
    /\ ~should_render
    /\ ~frame_ready
    /\ ppc = "idle"

(***************************************************************************)
(* C23: force_full_update is sticky: once set it is cleared only by the    *)
(* render task, at the end of the full-update branch, after                *)
(* renderFrameToDSI and pushFramebufferToDisplay have run in that same     *)
(* cycle; a rate-limited wake, a skip cycle and a partial cycle leave it   *)
(* as it is.                                                               *)
(***************************************************************************)
C23_ForceFullSticky ==
    [][(force_full_update /\ ~force_full_update')
          => /\ pc = "clear"
             /\ pc' = "end"
             /\ full_log = 1
             /\ FullWindow \in Range(push_log)
             /\ cycle_kind' = "full"]_vars

\* set_palette has set the flag during a partial update: the cycle ends
\* with the flag still set
C23_Witness ==
    /\ pc = "end"
    /\ cycle_kind = "partial"
    /\ tile_log # <<>>
    /\ force_full_update

\* the flag is set and the wake was rate-limited: the task waits again
C23_ReachedRateLimited ==
    /\ pc = "wait"
    /\ should_render
    /\ elapsed < min_frame_ticks
    /\ force_full_update

(***************************************************************************)
(* C24: every tile bit a drain places in the render bitmap was set by a    *)
(* mark call after the previous drain of its word: the drain never reports *)
(* a tile that was not marked since the last drain.                        *)
(***************************************************************************)
\* got holds the tiles that were ORed into the accumulator since the
\* previous exchange of their word and that this drain has exchanged
C24_DrainReportsOnlyMarked ==
    /\ pc = "collect"
         => \A t \in BitmapTiles(dirty_tiles) : t \div 32 < collect_i => t \in got
    /\ collect_i = DIRTY_WORDS
         => /\ BitmapTiles(dirty_tiles) \subseteq got
            /\ dirty_tile_count <= Cardinality(got)

\* a drain has reported the tile of the second offset only; the
\* tile of the first one, marked behind the drain, waits in the accumulator
C24_Witness ==
    /\ pc = "render"
    /\ collect_i = DIRTY_WORDS
    /\ BitmapTiles(dirty_tiles) = TilesOfByte(85 * MAC_SCREEN_WIDTH + 330)
    /\ dirty_tile_count = 1
    /\ BitmapTiles(write_dirty_tiles) = TilesOfByte(45 * MAC_SCREEN_WIDTH + 50)

(***************************************************************************)
(* C25: a cycle in which force_full_update is clear at the decision and    *)
(* the drain returns zero tiles renders nothing and pushes nothing, and is *)
(* counted as a skipped cycle; no other cycle is counted so.               *)
(***************************************************************************)
C25_SkipDoesNothing ==
    /\ (pc = "end" /\ ~do_full_update /\ dirty_tile_count = 0)
         => /\ cycle_kind = "skip"
            /\ full_log = 0
            /\ tile_log = <<>>
            /\ push_log = <<>>
    /\ (pc = "end" /\ cycle_kind = "skip")
         => /\ ~do_full_update
            /\ dirty_tile_count = 0
            /\ collect_i = DIRTY_WORDS
            /\ full_log = 0
            /\ tile_log = <<>>
            /\ push_log = <<>>

\* a signalled cycle has found nothing marked and ends as a skip, after an
\* earlier render
C25_Witness ==
    /\ pc = "end"
    /\ cycle_kind = "skip"
    /\ should_render
    /\ ~force_full_update
    /\ dirty_tile_count = 0
    /\ push_log = <<>>

(***************************************************************************)
(* C26: a cycle that finds force_full_update set at the decision renders   *)
(* the whole frame without draining: no step of it changes the accumulator,*)
(* nothing is exchanged out, every mark stays in the accumulator and the   *)
(* next drain reports it.  A full render chosen by the threshold test      *)
(* leaves force_full_update clear at the end of its cycle.                 *)
(***************************************************************************)
C26_ForcedFullKeepsMarks ==
    [][/\ (pc = "decide" /\ force_full_update /\ pc' # pc)
            => (pc' = "render" /\ do_full_update'
                /\ write_dirty_tiles' = write_dirty_tiles)
       /\ (pc \in {"render", "push", "clear"} /\ do_full_update /\ pc' # pc)
            => write_dirty_tiles' = write_dirty_tiles
       /\ (pc \in {"render", "push", "clear", "end"} /\ do_full_update /\ collect_i = 0)
            => (got = {} /\ unseen \subseteq BitmapTiles(write_dirty_tiles))
       /\ (pc = "render" /\ collect_i = DIRTY_WORDS)
            => got \subseteq BitmapTiles(dirty_tiles)
       /\ (pc = "end" /\ cycle_kind = "full" /\ collect_i = DIRTY_WORDS)
            => (dirty_tile_count > dirty_threshold /\ ~force_full_update)
       /\ (pc = "decide" /\ ~force_full_update /\ pc' # pc) => pc' = "collect"
      ]_vars

\* the drain after a forced full render reports tiles again that the
\* full render has already shown and that nobody marked since
C26_Witness ==
    /\ pc = "render"
    /\ collect_i = DIRTY_WORDS
    /\ got # {}
    /\ got \cap (owe \cup fresh) = {}
    /\ got \subseteq BitmapTiles(dirty_tiles)
    /\ ~do_full_update

\* a full render chosen by the threshold test has ended with the flag clear
C26_ReachedThresholdFull ==
    /\ pc = "end"
    /\ cycle_kind = "full"
    /\ collect_i = DIRTY_WORDS
    /\ ~force_full_update

\* a forced full render has ended with every mark still in the accumulator
C26_ReachedForcedEnd ==
    /\ pc = "end"
    /\ cycle_kind = "full"
    /\ collect_i = 0
    /\ unseen # {}
    /\ unseen \subseteq BitmapTiles(write_dirty_tiles)

(***************************************************************************)
(* C27: a wake that the rate limit turns back has taken the pending        *)
(* notifications and cleared frame_ready, and goes back to waiting with    *)
(* the accumulator, force_full_update and last_frame_ticks as they were;   *)
(* a tile marked before it is rendered by a later cycle.                   *)
(***************************************************************************)
C27_RateLimitedWakeKeepsDirty ==
    /\ [][/\ (pc = "wait" /\ pc' # pc) => (pc' = "flag" /\ notify_value' = 0)
          /\ (pc = "gate" /\ pc' # pc /\ should_render /\ clk_frame < min_frame_ticks)
               => /\ pc' = "wait"
                  /\ write_dirty_tiles' = write_dirty_tiles
                  /\ force_full_update' = force_full_update
                  /\ clk_frame' = clk_frame
                  /\ ~frame_ready'
                  /\ notify_value' = notify_value
                  /\ unseen' = unseen /\ owe' = owe /\ fresh' = fresh
                  /\ push_log' = <<>> /\ tile_log' = <<>> /\ full_log' = 0
         ]_vars
    /\ [](unseen \subseteq BitmapTiles(write_dirty_tiles))
    /\ \A t \in {(45 \div TILE_HEIGHT) * TILES_X + (50 \div TILE_WIDTH)} :
          (pc = "wait" /\ should_render /\ elapsed < min_frame_ticks /\ Unrendered(t))
             ~> (pc \in {"push", "tiles"} /\ t \in live_read)

\* a signalled wake has been turned back by the rate limit with a marked
\* tile waiting in the accumulator: the signal and the flag are gone
C27_Witness ==
    /\ pc = "wait"
    /\ should_render
    /\ elapsed < min_frame_ticks
    /\ notification > 0
    /\ notify_value = 0
    /\ ~frame_ready
    /\ ~force_full_update
    /\ unseen # {}
    /\ unseen \subseteq owe
    /\ unseen \subseteq BitmapTiles(write_dirty_tiles)

(***************************************************************************)
(* C28: in a partial update every dirty tile goes through snapshot,        *)
(* barrier, conversion and push in that order; what is pushed is the       *)
(* tile's snapshot looked up in the palette copy the cycle made before the *)
(* drain.  A pixel the emulator stores or a palette it sets after the      *)
(* snapshot changes neither the snapshot, the converted tile, the palette  *)
(* copy nor what is pushed, and the palette copy is the same for all tiles *)
(* of the update.                                                          *)
(***************************************************************************)
C28_TileFromSnapshotAndCopy ==
    [][/\ (tpc' # tpc)
            => <<tpc, tpc'>> \in {<<"next", "snapshot">>, <<"snapshot", "convert">>,
                                  <<"convert", "push">>, <<"push", "next">>}
       /\ (tpc = "snapshot" /\ tpc' = "convert")
            => DOMAIN tile_snapshot = BytesOfTile(tile_idx, current_bytes_per_row)
       /\ (tpc = "push" /\ tpc' = "next")
            => /\ pushed' = [a \in BytesOfTile(tile_idx, current_bytes_per_row) |->
                                local_palette[tile_snapshot[a]]]
               /\ push_log' = Append(push_log, TileWindow(tile_idx))
               /\ isTileDirty(tile_idx)
       /\ (mac_pixels' # mac_pixels \/ palette_rgb565' # palette_rgb565)
            => UNCHANGED <<tile_snapshot, tile_buffer, local_palette, pushed, push_log>>
       /\ (pc \in {"decide", "collect", "render", "tiles"})
            => local_palette' = local_palette
       /\ (pc = "palette" /\ pc' # pc) => local_palette' = palette_rgb565
      ]_vars

\* a tile has been pushed with the colour its snapshot has in the palette
\* copy, after the emulator has stored another pixel there and set another
\* palette
C28_Witness ==
    /\ pc = "tiles"
    /\ tpc = "next"
    /\ palette_rgb565 # local_palette
    /\ \E a \in DOMAIN pushed :
          /\ mac_pixels[a] = 15
          /\ pushed[a] = local_palette[128]
          /\ pushed[a] \notin {palette_rgb565[15], palette_rgb565[128], local_palette[15]}

\* the second tile of a partial update is converted with the palette copy
\* of the first although the table has changed since
C28_ReachedSecondTile ==
    /\ pc = "tiles"
    /\ tpc = "push"
    /\ Len(tile_log) = 1
    /\ palette_rgb565 # local_palette
    /\ \A a \in DOMAIN tile_buffer : tile_buffer[a] = local_palette[tile_snapshot[a]]
    /\ \E a \in DOMAIN tile_buffer : tile_buffer[a] # palette_rgb565[tile_snapshot[a]]

\* the emulator stored a pixel between two bytes of one snapshot
C28_ReachedTornSnapshot ==
    /\ tpc = "convert"
    /\ \E a, b \in DOMAIN tile_snapshot :
          /\ tile_snapshot[a] # tile_snapshot[b]
          /\ mac_pixels[a] = mac_pixels[b]

(***************************************************************************)
(* C29: a partial update pushes every tile (tx, ty) of the render bitmap   *)
(* to the window x = tx*80, y = ty*80, w = 80, h = 80 and pushes nothing   *)
(* else, so no pushed window meets the region of a tile that is not in the *)
(* render bitmap; the 144 windows are pairwise disjoint and cover the      *)
(* 1280x720 panel exactly.                                                 *)
(***************************************************************************)
WindowsDisjoint(a, b) ==
    \/ a[1] + a[3] <= b[1]
    \/ b[1] + b[3] <= a[1]
    \/ a[2] + a[4] <= b[2]
    \/ b[2] + b[4] <= a[2]

\* the windows are pairwise disjoint, lie inside the panel, and every
\* display column and every display row belongs to exactly one tile column
\* and one tile row: the windows are the products of these
TileWindowsPartition ==
    /\ TOTAL_TILES = 144
    /\ \A t, u \in AllTiles : t # u => WindowsDisjoint(TileWindow(t), TileWindow(u))
    /\ \A t \in AllTiles :
          /\ TileWindow(t)[1] = TileWindow(t % TILES_X)[1]
          /\ TileWindow(t)[2] = TileWindow((t \div TILES_X) * TILES_X)[2]
          /\ TileWindow(t)[3] = 80 /\ TileWindow(t)[4] = 80
          /\ TileWindow(t)[1] + TileWindow(t)[3] <= DISPLAY_WIDTH
          /\ TileWindow(t)[2] + TileWindow(t)[4] <= DISPLAY_HEIGHT
    /\ \A x \in 0..(DISPLAY_WIDTH - 1) :
          Cardinality({tx \in 0..(TILES_X - 1) :
                         /\ TileWindow(tx)[1] <= x
                         /\ x < TileWindow(tx)[1] + TileWindow(tx)[3]}) = 1
    /\ \A y \in 0..(DISPLAY_HEIGHT - 1) :
          Cardinality({ty \in 0..(TILES_Y - 1) :
                         /\ TileWindow(ty * TILES_X)[2] <= y
                         /\ y < TileWindow(ty * TILES_X)[2] + TileWindow(ty * TILES_X)[4]}) = 1

C29_PartialPushesTileWindows ==
    /\ TileWindowsPartition
    /\ (pc = "tiles" \/ (pc = "end" /\ cycle_kind = "partial"))
         => /\ Len(push_log) = Len(tile_log)
            /\ \A k \in DOMAIN push_log :
                  /\ isTileDirty(tile_log[k])
                  /\ push_log[k] = <<(tile_log[k] % 16) * 80, (tile_log[k] \div 16) * 80,
                                     80, 80>>
                  /\ \A u \in AllTiles \ BitmapTiles(dirty_tiles) :
                        WindowsDisjoint(push_log[k],
                                        <<(u % 16) * 80, (u \div 16) * 80, 80, 80>>)
    /\ (pc = "end" /\ cycle_kind = "partial")
         => \A t \in BitmapTiles(dirty_tiles) :
               <<(t % 16) * 80, (t \div 16) * 80, 80, 80>> \in Range(push_log)

\* a partial update has pushed the windows of tiles (1, 1) and (8, 2) and
\* nothing else
C29_Witness ==
    /\ pc = "end"
    /\ cycle_kind = "partial"
    /\ push_log = <<(<<80, 80, 80, 80>>), (<<640, 160, 80, 80>>)>>
    /\ BitmapTiles(dirty_tiles) = {17, 40}

(***************************************************************************)
(* C30: detectDirtyTiles marks tile (tx, ty) exactly if current and        *)
(* previous differ in a byte of rows ty*40 .. ty*40+39 and byte columns    *)
(* tx*40/ppb .. tx*40/ppb + 40/ppb - 1, at every depth, and returns the    *)
(* number of tiles it marked: comparing words first and stopping early     *)
(* finds what a comparison byte by byte finds.                             *)
(***************************************************************************)
\* the offsets where the two buffers hold different bytes
DifferingBytes == (cmp_cur \ cmp_prev) \cup (cmp_prev \ cmp_cur)

\* the two buffers differ in a byte of the extent of tile (tx, ty)
ExtentDiffers(tx, ty) ==
    LET bpr == TrivialBytesPerRow(MAC_SCREEN_WIDTH, current_depth)
        ppb == 8 \div DepthBits(current_depth)
    IN \E o \in DifferingBytes :
         /\ (o \div bpr) \in (ty * 40)..(ty * 40 + 39)
         /\ (o % bpr) \in ((tx * 40) \div ppb)..(((tx * 40) \div ppb) + (40 \div ppb) - 1)

C30_DetectMarksExactly ==
    /\ cmp_pc \in {"tiles", "done"}
         => /\ \A t \in 0..(cmp_tile - 1) :
                  isTileDirty(t) <=> ExtentDiffers(t % TILES_X, t \div TILES_X)
            /\ \A t \in cmp_tile..(TOTAL_TILES - 1) : ~isTileDirty(t)
            /\ cmp_count = Cardinality(BitmapTiles(dirty_tiles))
    /\ cmp_pc = "done"
         => cmp_count = Cardinality({t \in AllTiles :
                                       ExtentDiffers(t % TILES_X, t \div TILES_X)})

\* at one bit per pixel a difference in the fifth byte of a tile row, which
\* no whole word covers, and one in the first byte of the next tile have
\* marked two tiles
C30_Witness ==
    /\ cmp_pc = "done"
    /\ current_depth = "VDEPTH_1BIT"
    /\ DifferingBytes = {4, 39 * 80 + 5}
    /\ BitmapTiles(dirty_tiles) = {0, 1}
    /\ cmp_count = 2

\* at eight bits per pixel the same cells are in one tile
C30_Reached8Bit ==
    /\ cmp_pc = "done"
    /\ current_depth = "VDEPTH_8BIT"
    /\ DifferingBytes = {4, 39 * 640 + 5}
    /\ BitmapTiles(dirty_tiles) = {0}
    /\ cmp_count = 1

\* buffers that were both written, alike: nothing is marked
C30_ReachedAlike ==
    /\ cmp_pc = "done"
    /\ cmp_cur # {}
    /\ cmp_cur = cmp_prev
    /\ cmp_count = 0

(***************************************************************************)
(* C31: a VideoInit that succeeds leaves force_full_update set, and the    *)
(* flag stays set until a cycle has passed the gate and rendered and       *)
(* pushed the whole frame: no drain, partial update or skip comes before   *)
(* it, whatever the accumulator holds.                                     *)
(***************************************************************************)
C31_FirstCycleIsFull ==
    [][/\ (vpc = "preinit" /\ vpc' = "running") => force_full_update'
       /\ (pc \in {"collect", "tiles"} \/ cycle_kind \in {"partial", "skip"})
            => ~force_full_update
       /\ (pc = "decide" /\ force_full_update /\ pc' # pc)
            => (pc' = "render" /\ do_full_update')
       /\ (force_full_update /\ ~force_full_update')
            => /\ pc = "clear"
               /\ collect_i = 0
               /\ vpc = "running" => (full_log = 1 /\ push_log = <<FullWindow>>)
      ]_vars

\* the first cycle after VideoInit has rendered and pushed the whole frame
\* with a tile marked in the accumulator, which it has not drained
C31_Witness ==
    /\ init_result = "true"
    /\ vpc = "running"
    /\ pc = "end"
    /\ cycle_kind = "full"
    /\ full_log = 1
    /\ push_log = <<FullWindow>>
    /\ BitmapTiles(write_dirty_tiles) # {}
    /\ dirty_tiles = ZeroBitmap
    /\ ~force_full_update

(***************************************************************************)
(* C32: after initDefaultPalette(d), for every depth d, entry 0 of the     *)
(* palette is white, entry 2^bits(d) - 1 is black, and force_full_update   *)
(* is true.                                                                *)
(***************************************************************************)
\* C32 as stated, on the state a mode switch to depth seq_depth leaves
C32_WhiteFirstBlackLast ==
    seq_op = "switch"
        => /\ palette_rgb565[0] = rgb888_to_rgb565(255, 255, 255)
           /\ palette_rgb565[(2 ^ DepthBits(seq_depth)) - 1] = rgb888_to_rgb565(0, 0, 0)
           /\ force_full_update


(***************************************************************************)
(* C33: a palette change or mode switch is never lost: if set_palette sets *)
(* force_full_update while the consumer is in the middle of a full render, *)
(* a further full render follows whose palette copy was taken after the    *)
(* change; the consumer's force_full_update = false never erases a set     *)
(* that happened after the render's palette copy.                          *)
(***************************************************************************)
\* C33 as a state property: whenever no full update is requested and no
\* set_palette call is between its loop and its force_full_update = true,
\* the frame on display was rendered with the palette as it is now (nothing
\* but a request for a full update ever brings the two together again)
C33_PaletteChangeNotLost ==
    (~force_full_update /\ ppc = "idle") => frame_palette = palette_rgb565

(***************************************************************************)
(* C34: with write-time tracking, a fixed palette and depth, and a         *)
(* producer that calls the mark function after each framebuffer write,     *)
(* once the producer stops writing the consumer eventually reaches and     *)
(* stays in a state where every tile's displayed pixels equal the          *)
(* palette-converted, 2x-scaled contents of the framebuffer, for every     *)
(* interleaving of writes, marks, drains, tile snapshots and full renders. *)
(***************************************************************************)
\* every display pixel of the sample shows the colour of its source pixel
Healed == \A d \in PanelPixels : panel[d] = palette_rgb565[mac_pixels[SourceOf(d)]]

\* C34: the emulator stops storing pixels (after MaxPuts stores at the
\* latest); from some state on the display shows the framebuffer
C34_StaleFrameSelfHeals == <>[]Healed

\* a partial update has brought the display up to date after the emulator
\* changed pixels of both sample tiles, one of them during the first frame
C34_Witness ==
    /\ Healed
    /\ pc = "end"
    /\ cycle_kind = "partial"
    /\ Len(tile_log) = 2
    /\ ppc = "idle"
    /\ write_dirty_tiles = ZeroBitmap
    /\ mac_pixels[45 * MAC_SCREEN_WIDTH + 50] = 15
    /\ mac_pixels[85 * MAC_SCREEN_WIDTH + 330] = 15

(***************************************************************************)
(* C35: in the comparison fallback (write-time tracking disabled) there    *)
(* are no false negatives: once the producer stops writing, every tile     *)
(* whose displayed content differs from the framebuffer is eventually      *)
(* detected as dirty and re-rendered, also when a forced full render       *)
(* skipped the snapshot step or when the producer wrote between the        *)
(* whole-frame snapshot and the render that reads the live framebuffer.    *)
(***************************************************************************)
\* a display pixel of tile t does not show its source pixel
StaleTile(t) ==
    \E o \in BytesOfTile(t, current_bytes_per_row) :
        \E d \in DisplayOf(o) : panel[d] # palette_rgb565[mac_pixels[o]]

C36_LayoutFromOneMode ==
    /\ rd_pc = "done" => rd_bpr = TrivialBytesPerRow(MAC_SCREEN_WIDTH, rd_depth)
    /\ ppc = "idle" => /\ current_bytes_per_row =
                              TrivialBytesPerRow(MAC_SCREEN_WIDTH, current_depth)
                       /\ current_pixels_per_byte = 8 \div DepthBits(current_depth)

(***************************************************************************)
(* C37: in every reachable state only bits 0..143 of the accumulator       *)
(* bitmap and of the render bitmap can be set (bits 144..159 of the last   *)
(* word stay zero and no word outside the 5-word arrays is touched), for   *)
(* every offset, size, depth and bytes-per-row passed to the mark          *)
(* functions; hence every drain count is between 0 and 144.                *)
(***************************************************************************)
\* C37: the bits of both bitmaps are tile bits, the tile indices of the
\* last mark call are below TOTAL_TILES, and the drain count is at most
\* TOTAL_TILES
C37_OnlyTileBits ==
    /\ BitmapTiles(write_dirty_tiles) \subseteq AllTiles
    /\ BitmapTiles(dirty_tiles) \subseteq AllTiles
    /\ dirty_tile_count \in 0..TOTAL_TILES
    /\ seq_op = "markOffset"
         => Range(MarkOffsetTiles(seq_off, use_write_dirty_tracking, frame_buffer_size,
                                  current_bytes_per_row, current_pixels_per_byte))
              \subseteq AllTiles
    /\ seq_op = "markRange"
         => Range(MarkRangeTiles(seq_off, seq_size, use_write_dirty_tracking,
                                 frame_buffer_size, current_bytes_per_row,
                                 current_pixels_per_byte))
              \subseteq AllTiles

\* the last tile has been marked and drained
C37_Witness ==
    /\ seq_op = "drain"
    /\ (TOTAL_TILES - 1) \in BitmapTiles(dirty_tiles)
    /\ dirty_tile_count > 0
    /\ write_dirty_tiles = ZeroBitmap

\* a range in a packed mode whose last row is below the screen has been marked
C37_ReachedRowClamp ==
    /\ seq_op = "markRange"
    /\ current_depth = "VDEPTH_1BIT"
    /\ U32PredDiv(seq_off + seq_size, current_bytes_per_row) \div TILE_HEIGHT >= TILES_Y
    /\ BitmapTiles(write_dirty_tiles) # {}

(***************************************************************************)
(* C39: VideoMarkDirtyRange(offset, 0) marks nothing: for every in-bounds  *)
(* offset (including offset 0 and offsets at the start of a row) a call    *)
(* with size 0 leaves the accumulator bitmap unchanged, with the 32-bit    *)
(* unsigned computation of offset + size - 1 taken into account.           *)
(***************************************************************************)
\* C39: a call of VideoMarkDirtyRange with size 0 leaves write_dirty_tiles as
\* it was
C39_ZeroSizeMarksNothing ==
    [][(seq_marks' # seq_marks /\ seq_op' = "markRange" /\ seq_size' = 0)
          => write_dirty_tiles' = write_dirty_tiles]_vars

(***************************************************************************)
(* C38: whenever VideoInit returns false, no buffer it allocated remains   *)
(* allocated: the source framebuffer, the snapshot buffer, the compare     *)
(* buffer and the destination framebuffer are all freed and their pointers *)
(* are null on every failure path, including the failure to obtain the     *)
(* destination framebuffer.                                                *)
(***************************************************************************)
\* C38: after VideoInit has returned false nothing is allocated and the four
\* pointers are null
C38_FailedInitFreesAll ==
    init_result = "false"
        => /\ heap = {}
           /\ mac_frame_buffer = "NULL"
           /\ snapshot_buffer = "NULL"
           /\ compare_buffer = "NULL"
           /\ dsi_framebuffer = "NULL"

====
